---------------------------- MODULE Spec2Model ----------------------------
(***************************************************************************)
(* The comment formatter of Voter (src/build_comment.ts): the TextMasker   *)
(* class, the list converter and buildWikitext; and the submission of a    *)
(* vote (src/vote_dialog.ts, vote and voteAPI).                            *)
(*                                                                         *)
(* A JavaScript string is a sequence of one-character strings.  Indices    *)
(* handed to indexOf, substring and slice keep their 0-based JavaScript    *)
(* values; every other index is a 1-based index into the sequence.  A      *)
(* regular expression is an operator that tells where a match tried at an  *)
(* index ends (exclusive), 0 when no match starts there.                   *)
(***************************************************************************)
EXTENDS Integers, Sequences, FiniteSets, TLC

VARIABLES
    input,        \* the text handed to the operation under study
    indent,       \* the indentation marker handed to buildWikitext
    text,         \* TextMasker.text
    maskedTexts,  \* TextMasker.maskedTexts
    pc,           \* where the running call stands
    pos,          \* maskTemplatesRecursively: scan cursor
    stack,        \* maskTemplatesRecursively: positions of open "{{"
    unmaskType,   \* unmaskText: the type handed to unmask, <<>> when none is given
    passes,       \* unmaskText: replace passes made by the current loop
    result,       \* what the call returned (a text)
    error,        \* message of the Error the call threw, "none" when none
    aux,          \* per-specification bookkeeping (see each Init)
    state,        \* the gadget's state: pageName and sectionTitles
    dialog,       \* the vote dialog's data
    voting,       \* the running vote(): its ids, the id in hand, the voteAPI results
    edits,        \* the parameters of every api.post made, in order
    notices,      \* every mw.notify made by a submission, in order
    voteMessageCache,       \* vote_dialog.ts: the message cached for each entry, <<>> when none
    entryInfoPromiseCache,  \* vote_dialog.ts: the state of the cached info promise of each entry
    loads,        \* the loadEntryInfo calls that wait for Promise.all, in the order they were made
    mountedApp,   \* dialog.ts: the app mountApp stored, 0 for null
    mountElement, \* the element #voter-dialog-mount: whether it is in the document, the apps mounted on it
    timers,       \* the number of setTimeout(removeDialogMount, 300) not yet run
    apps          \* the dialog apps created so far: "loading", "open", "closed", "replaced" or "failed"

pageVars == <<voteMessageCache, entryInfoPromiseCache, loads, mountedApp, mountElement, timers, apps>>

voteVars == <<state, dialog, voting, edits, notices, pageVars>>

vars == <<input, indent, text, maskedTexts, pc, pos, stack, unmaskType, passes, result, error, aux, voteVars>>

-----------------------------------------------------------------------------
(* Characters *)

LOWER == <<"a", "b", "c", "d", "e", "f", "g", "h", "i", "j", "k", "l", "m",
           "n", "o", "p", "q", "r", "s", "t", "u", "v", "w", "x", "y", "z">>
UPPER == <<"A", "B", "C", "D", "E", "F", "G", "H", "I", "J", "K", "L", "M",
           "N", "O", "P", "Q", "R", "S", "T", "U", "V", "W", "X", "Y", "Z">>
DIGITS == <<"0", "1", "2", "3", "4", "5", "6", "7", "8", "9">>

Range(s) == {s[k] : k \in 1..Len(s)}
Min(S) == CHOOSE m \in S : \A y \in S : m <= y
Max(S) == CHOOSE m \in S : \A y \in S : m >= y

LETTER_CHARS == Range(LOWER) \cup Range(UPPER)        \* [a-z] under flag i
DIGIT_CHARS == Range(DIGITS)                          \* \d
WORD_CHARS == LETTER_CHARS \cup DIGIT_CHARS \cup {"_"} \* \w
LIST_CHARS == {":", "*", "#", ";"}                    \* [:*#;]
NL == "\n"

IsListChar(c) == c \in LIST_CHARS
ToLower(c) == IF c \in Range(UPPER) THEN LOWER[CHOOSE k \in 1..Len(UPPER) : UPPER[k] = c] ELSE c
LowerText(s) == [k \in 1..Len(s) |-> ToLower(s[k])]

-----------------------------------------------------------------------------
(* JavaScript string primitives *)

\* lit occurs in t at 1-based index i
StartsWithAt(t, i, lit) ==
    /\ i >= 1
    /\ i + Len(lit) - 1 <= Len(t)
    /\ \A k \in 1..Len(lit) : t[i + k - 1] = lit[k]

\* the same, ignoring case (flag i)
StartsWithAtCI(t, i, lit) ==
    /\ i >= 1
    /\ i + Len(lit) - 1 <= Len(t)
    /\ \A k \in 1..Len(lit) : ToLower(t[i + k - 1]) = ToLower(lit[k])

\* String.prototype.indexOf(lit, from): 0-based index, -1 when absent
IndexOfFrom(t, lit, start) ==
    IF \E p \in start..(Len(t) - Len(lit)) : StartsWithAt(t, p + 1, lit)
    THEN Min({p \in start..(Len(t) - Len(lit)) : StartsWithAt(t, p + 1, lit)})
    ELSE -1

IndexOf(t, lit, from) == IndexOfFrom(t, lit, IF from < 0 THEN 0 ELSE from)

Clamp(n, len) == IF n < 0 THEN 0 ELSE IF n > len THEN len ELSE n

\* String.prototype.substring(a, b)
SubstringClamped(t, x, y) == IF x <= y THEN SubSeq(t, x + 1, y) ELSE SubSeq(t, y + 1, x)

Substring(t, a, b) == SubstringClamped(t, Clamp(a, Len(t)), Clamp(b, Len(t)))

\* String.prototype.slice(a), a >= 0
Slice(t, a) == SubSeq(t, Clamp(a, Len(t)) + 1, Len(t))

\* first index >= i whose character is not in the class S (Len(t) + 1 at the end)
RunEnd(t, i, S) ==
    IF i > Len(t) THEN i
    ELSE Min({j \in i..(Len(t) + 1) : j = Len(t) + 1 \/ t[j] \notin S})

\* first index >= i whose character is in the class S (Len(t) + 1 at the end)
RunUntil(t, i, S) ==
    IF i > Len(t) THEN i
    ELSE Min({j \in i..(Len(t) + 1) : j = Len(t) + 1 \/ t[j] \in S})

\* decimal digits of a number >= 0, and back (Number(num))
RECURSIVE NumToText(_)
NumToText(n) == IF n < 10 THEN <<DIGITS[n + 1]>>
                ELSE NumToText(n \div 10) \o <<DIGITS[(n % 10) + 1]>>

RECURSIVE TextToNum(_)
TextToNum(ds) ==
    IF ds = <<>> THEN 0
    ELSE TextToNum(SubSeq(ds, 1, Len(ds) - 1)) * 10
         + ((CHOOSE k \in 1..Len(DIGITS) : DIGITS[k] = ds[Len(ds)]) - 1)

\* a trim that is left out
TrimNot(t) == t

\* String.prototype.trim(); the texts hold no white space but " " and "\n"
TrimTo(t, keep) == IF keep = {} THEN <<>> ELSE SubSeq(t, Min(keep), Max(keep))

Trim(t) == TrimTo(t, {k \in 1..Len(t) : t[k] \notin {" ", NL}})

\* line boundaries, for ^ and $ under flag m
AtLineStart(t, i) == i = 1 \/ (i >= 2 /\ i <= Len(t) + 1 /\ t[i - 1] = NL)
AtLineEnd(t, i) == i = Len(t) + 1 \/ (i >= 1 /\ i <= Len(t) /\ t[i] = NL)

\* index of the end of the line holding index p (the index of its "\n", or Len + 1)
LineEnd(t, p) == RunUntil(t, p, {NL})

\* the matches a g-flagged expression finds left to right, as <<start, end>> pairs
\* (end exclusive), from ends[p]: where a match tried at p ends, 0 when none
MatchesOf(ends) ==
    LET R[i \in 1..(Len(ends) + 1)] ==
            IF \A p \in i..Len(ends) : ends[p] = 0 THEN <<>>
            ELSE <<(<<RunUntil(ends, i, Nat \ {0}), ends[RunUntil(ends, i, Nat \ {0})]>>)>>
                 \o R[ends[RunUntil(ends, i, Nat \ {0})]]
    IN R[1]

\* where a match tried at each index of t ends, as a sequence
MatchEnds(t, MatchEnd(_, _)) == [p \in 1..Len(t) |-> MatchEnd(t, p)] \o <<>>

AllMatches(t, MatchEnd(_, _)) == MatchesOf(MatchEnds(t, MatchEnd))

Matched(t, m) == SubSeq(t, m[1], m[2] - 1)

\* String.prototype.replace(regexp, callback) over the matches ms: Repl(k, m) is
\* the text the callback returns for the k-th match m
ReplaceMatches(t, ms, Repl(_, _)) ==
    LET R[k \in 1..(Len(ms) + 1)] ==
            IF k > Len(ms) THEN SubSeq(t, IF k = 1 THEN 1 ELSE ms[k - 1][2], Len(t))
            ELSE SubSeq(t, IF k = 1 THEN 1 ELSE ms[k - 1][2], ms[k][1] - 1)
                 \o Repl(k, ms[k]) \o R[k + 1]
    IN R[1]

\* replace with a g-flagged regular expression, and with one that has no g flag
ReplaceAll(t, MatchEnd(_, _), Repl(_, _)) == ReplaceMatches(t, AllMatches(t, MatchEnd), Repl)

FirstMatch(ms) == IF ms = <<>> THEN <<>> ELSE <<ms[1]>>

ReplaceFirst(t, MatchEnd(_, _), Repl(_, _)) ==
    ReplaceMatches(t, FirstMatch(AllMatches(t, MatchEnd)), Repl)

-----------------------------------------------------------------------------
(* Constants of build_comment.ts *)

MASK_PREFIX == <<"<", "<", "V", "O", "T", "E", "R", "_", "M", "A", "S", "K", "_">>
MASK_SUFFIX == <<"_", "V", "O", "T", "E", "R", ">", ">">>
UNDEFINED == <<"u", "n", "d", "e", "f", "i", "n", "e", "d">>   \* String(undefined)

\* the mask types
K_block == <<"b", "l", "o", "c", "k">>
K_gallery == <<"g", "a", "l", "l", "e", "r", "y">>
K_inline == <<"i", "n", "l", "i", "n", "e">>
K_template == <<"t", "e", "m", "p", "l", "a", "t", "e">>
K_table == <<"t", "a", "b", "l", "e">>

\* the tag names
T_pre == <<"p", "r", "e">>
T_source == <<"s", "o", "u", "r", "c", "e">>
T_syntaxhighlight == <<"s", "y", "n", "t", "a", "x", "h", "i", "g", "h", "l", "i", "g", "h", "t">>
T_gallery == <<"g", "a", "l", "l", "e", "r", "y">>
T_poem == <<"p", "o", "e", "m">>
T_nowiki == <<"n", "o", "w", "i", "k", "i">>
T_blockquote == <<"b", "l", "o", "c", "k", "q", "u", "o", "t", "e">>
T_q == <<"q">>

\* the token mask() writes for the id-th stored text
Token(id, type) ==
    MASK_PREFIX \o NumToText(id)
    \o (IF type = <<>> THEN <<>> ELSE <<"_">> \o type) \o MASK_SUFFIX

-----------------------------------------------------------------------------
(* Regular expressions over mask tokens *)

\* what stands between the digits and _VOTER>> :
\*   optional: nothing;  anyKind: _\w+(?:_\d+)? ;  a kind of kinds: _kind ;
\*   withLen: _kind_\d+
TokenMiddleOk(m, kinds, anyKind, optional, withLen) ==
    \/ optional /\ m = <<>>
    \/ anyKind /\ Len(m) >= 2 /\ m[1] = "_"
    \/ \E k \in kinds : m = <<"_">> \o k
    \/ /\ withLen
       /\ \E k \in kinds : /\ StartsWithAt(m, 1, <<"_">> \o k \o <<"_">>)
                           /\ Len(m) > Len(k) + 2
                           /\ \A j \in (Len(k) + 3)..Len(m) : m[j] \in DIGIT_CHARS

\* the token whose digits end before e and whose word characters end before g
\* (\w cannot run over ">", so _VOTER>> must end the run of word characters)
TokenEndAt(t, e, g, kinds, anyKind, optional, withLen) ==
    IF /\ g - 6 >= e
       /\ StartsWithAt(t, g - 6, MASK_SUFFIX)
       /\ TokenMiddleOk(SubSeq(t, e, g - 7), kinds, anyKind, optional, withLen)
    THEN g + 2 ELSE 0

TokenFrom(t, d, e, kinds, anyKind, optional, withLen) ==
    IF e = d THEN 0
    ELSE TokenEndAt(t, e, RunEnd(t, e, WORD_CHARS), kinds, anyKind, optional, withLen)

\* <<VOTER_MASK_(\d+) MIDDLE _VOTER>> tried at p: the index after the match
TokenRegexp(t, p, kinds, anyKind, optional, withLen) ==
    IF ~StartsWithAt(t, p, MASK_PREFIX) THEN 0
    ELSE TokenFrom(t, p + Len(MASK_PREFIX), RunEnd(t, p + Len(MASK_PREFIX), DIGIT_CHARS),
                   kinds, anyKind, optional, withLen)

\* the digits of the token at p (capture group 1)
TokenDigits(t, p) ==
    SubSeq(t, p + Len(MASK_PREFIX), RunEnd(t, p + Len(MASK_PREFIX), DIGIT_CHARS) - 1)

\* <<VOTER_MASK_\d+_(kinds)_VOTER>>, with (?:_\d+)? after the kind when withLen
KindTokenEnd(t, p, kinds, withLen) == TokenRegexp(t, p, kinds, FALSE, FALSE, withLen)

\* MASK_ANY_REGEXP = /<<VOTER_MASK_(\d+)(?:_\w+(?:_\d+)?)?_VOTER>>/g tried at p
MASK_ANY_REGEXP(t, p) == TokenRegexp(t, p, {}, TRUE, TRUE, FALSE)

\* the expression for a type with the type made mandatory
TypedMaskRegexpStrict(t, p, type) == TokenRegexp(t, p, {type}, FALSE, FALSE, TRUE)

\* the regular expression unmaskText builds for a type, tried at p
TypedMaskRegexp(t, p, type) == TokenRegexp(t, p, {type}, FALSE, TRUE, TRUE)

-----------------------------------------------------------------------------
(* generateTagsRegexp *)

\* the attribute part of an opening tag, (?: [\w ]+(?:=[^<>]+?)?| *), split at
\* its first "=" (index q, Len(s) + 1 when there is none)
TagAttrsSplitOk(s, q) ==
    /\ q >= 3
    /\ \A k \in 2..(q - 1) : s[k] \in WORD_CHARS \cup {" "}
    /\ (q <= Len(s)) => (q < Len(s) /\ \A k \in (q + 1)..Len(s) : s[k] \notin {"<", ">"})

TagAttrsOk(s) ==
    \/ \A k \in 1..Len(s) : s[k] = " "
    \/ /\ Len(s) >= 2
       /\ s[1] = " "
       /\ TagAttrsSplitOk(s, RunUntil(s, 2, {"="}))

ClosingTag(name) == <<"<", "/">> \o name \o <<">">>

\* ([^]*?)(</NAME>) from index `from`: the index after the first closing tag
TagCloseAt(t, closers, c) ==
    IF c > Len(t) THEN 0
    ELSE c + Len(CHOOSE n \in closers : StartsWithAtCI(t, c, n))

TagCloseEnd(t, from, closers) ==
    TagCloseAt(t, closers,
        Min({c \in from..(Len(t) + 1) :
                c = Len(t) + 1 \/ \E n \in closers : StartsWithAtCI(t, c, n)}))

\* the opening tag whose name ends before ne and whose ">" is at gt
TagFromName(t, p, ne, gt, closers) ==
    IF gt > Len(t) \/ ~TagAttrsOk(SubSeq(t, ne, gt - 1)) THEN 0
    ELSE TagCloseEnd(t, gt + 1,
             IF closers = {} THEN {ClosingTag(SubSeq(t, p + 1, ne - 1))} ELSE closers)

TagFrom(t, p, ne, tags, anyName, closers) ==
    IF ne > p + 1 /\ (anyName \/ LowerText(SubSeq(t, p + 1, ne - 1)) \in tags)
    THEN TagFromName(t, p, ne, RunUntil(t, ne, {">"}), closers)
    ELSE 0

\* (<(NAME)(?: [\w ]+(?:=[^<>]+?)?| *)>)([^]*?)(</CLOSER>), flags ig, tried at p.
\* NAME is one of `tags` or, when anyName, [a-z]+ ; CLOSER is \2 when `closers`
\* is empty, any of `closers` otherwise
TagsRegexp(t, p, tags, anyName, closers) ==
    IF p <= Len(t) /\ t[p] = "<"
    THEN TagFrom(t, p, RunEnd(t, p + 1, LETTER_CHARS), tags, anyName, closers)
    ELSE 0

generateTagsRegexp(t, p, tags) == TagsRegexp(t, p, tags, FALSE, {})

-----------------------------------------------------------------------------
(* The table expressions of maskSensitiveCode *)

\* ^(:* *) tried at line start p: the index after the prefix
TablePrefixEnd(t, p) == RunEnd(t, RunEnd(t, p, {":"}), {" "})

TableEndsAt(closed, ends, n) ==
    IF ends = {} THEN 0 ELSE (IF closed THEN Min(ends) ELSE Max(ends)) + n

TableFrom(t, b, closed, tail) ==
    IF StartsWithAt(t, b, <<"{", "|">>)
    THEN TableEndsAt(closed, {k \in (b + 2)..Len(t) : StartsWithAt(t, k, tail)}, Len(tail))
    ELSE 0

\* /^(:* *)(\{\|[^]*?\n\|\})/gm (closed) and /^(:* *)(\{\|[^]*\n\|)/gm (open),
\* tried at p: the index after the match, 0 when none
TableRegexp(t, p, closed) ==
    IF AtLineStart(t, p)
    THEN TableFrom(t, TablePrefixEnd(t, p), closed,
                   IF closed THEN <<NL, "|", "}">> ELSE <<NL, "|">>)
    ELSE 0

-----------------------------------------------------------------------------
(* class TextMasker; a masker is [text, maskedTexts] *)

\* the expressions handed to mask(): where a match tried at p ends
MaskRegexpEnd(rx, t, p) ==
    IF rx.re = "tags" THEN generateTagsRegexp(t, p, rx.tags)
    ELSE TableRegexp(t, p, rx.closed)

\* capture group 1 of a match at p: the index after it
MaskRegexpGroup1End(rx, t, p) ==
    IF rx.re = "tags" THEN RunUntil(t, p, {">"}) + 1
    ELSE TablePrefixEnd(t, p)

\* capture group 2 of the match m
MaskRegexpGroup2(rx, t, m) ==
    IF rx.re = "tags" THEN SubSeq(t, m[1] + 1, RunEnd(t, m[1] + 1, LETTER_CHARS) - 1)
    ELSE SubSeq(t, TablePrefixEnd(t, m[1]), m[2] - 1)

\* a callback that forgets preText
MaskPreTextLost(rx, useGroups, t, m) == <<>>

\* preText of the callback of mask()
MaskPreText(rx, useGroups, t, m) ==
    IF useGroups THEN SubSeq(t, m[1], MaskRegexpGroup1End(rx, t, m[1]) - 1) ELSE <<>>

\* masked = textToMask || s
MaskedOr(textToMask, s) == IF textToMask # <<>> THEN textToMask ELSE s

MaskedText(rx, useGroups, t, m) ==
    MaskedOr(IF useGroups THEN MaskRegexpGroup2(rx, t, m) ELSE Matched(t, m), Matched(t, m))

\* mask() over the matches ms of its regular expression
MaskMatches(m, rx, type, useGroups, ms) ==
    [text |-> ReplaceMatches(m.text, ms,
                  LAMBDA k, mt : MaskPreText(rx, useGroups, m.text, mt)
                                 \o Token(Len(m.maskedTexts) + k, type)),
     maskedTexts |-> m.maskedTexts
                     \o [k \in 1..Len(ms) |-> MaskedText(rx, useGroups, m.text, ms[k])]]

mask(m, rx, type, useGroups) ==
    MaskMatches(m, rx, type, useGroups,
                AllMatches(m.text, LAMBDA t, p : MaskRegexpEnd(rx, t, p)))

maskTags(m, tags, type) == mask(m, [re |-> "tags", tags |-> tags], type, FALSE)

\* the expression unmaskText(text, type) uses, tried at p (type <<>>: no type given)
UnmaskRegexp(t, p, type) ==
    IF type = <<>> THEN MASK_ANY_REGEXP(t, p) ELSE TypedMaskRegexp(t, p, type)

\* regexp.test(text)
UnmaskTest(t, type) == \E p \in 1..Len(t) : UnmaskRegexp(t, p, type) > 0

\* this.maskedTexts[k - 1] as the replace callback's return value is written into
\* the text: undefined is written as "undefined"
MaskedTextAt(store, k) == IF k >= 1 /\ k <= Len(store) THEN store[k] ELSE UNDEFINED

\* one turn of the loop of unmaskText: text.replace(regexp, ...)
UnmaskPass(t, type, store) ==
    ReplaceAll(t, LAMBDA u, p : UnmaskRegexp(u, p, type),
               LAMBDA k, m : MaskedTextAt(store, TextToNum(TokenDigits(t, m[1]))))

\* the store indices named by the tokens of t that have an entry
TokenNumbersOf(t, ms, store) ==
    {TextToNum(TokenDigits(t, ms[k][1])) : k \in 1..Len(ms)} \cap (1..Len(store))

TokenNumbers(t, type, store) ==
    TokenNumbersOf(t, AllMatches(t, LAMBDA u, p : UnmaskRegexp(u, p, type)), store)

\* the entries reached from the set S of entries through the tokens they hold
RECURSIVE ReferencedFrom(_, _, _, _)
ReferencedFrom(S, next, type, store) ==
    IF next = S THEN S
    ELSE ReferencedFrom(next, next \cup UNION {TokenNumbers(store[k], type, store) : k \in next},
                        type, store)

Referenced(S, type, store) ==
    ReferencedFrom(S, S \cup UNION {TokenNumbers(store[k], type, store) : k \in S}, type, store)

\* The loop of unmaskText cannot end: a token of t leads to an entry whose text
\* holds, directly or through other entries, a token of that same entry.  Each
\* pass writes the stored text in place of the token, so such a token is back in
\* the text after every pass.
UnmaskDiverges(t, type, store) ==
    \E k \in Referenced(TokenNumbers(t, type, store), type, store) :
        k \in Referenced(TokenNumbers(store[k], type, store), type, store)

\* how many tokens of the list ms of matches in s name an entry from which the
\* entry k is reached again
TokensBackTo(s, ms, k, type, store) ==
    Cardinality({j \in 1..Len(ms) :
        /\ TextToNum(TokenDigits(s, ms[j][1])) \in 1..Len(store)
        /\ k \in Referenced({TextToNum(TokenDigits(s, ms[j][1]))}, type, store)})

\* The loop of unmaskText is ended by a RangeError (invalid string length): an
\* entry the tokens of t lead to holds two or more tokens that lead back to it,
\* so the text at least doubles with every pass and grows past the longest
\* string the engine can build after a few dozen passes.
UnmaskOverflows(t, type, store) ==
    \E k \in Referenced(TokenNumbers(t, type, store), type, store) :
        TokensBackTo(store[k], AllMatches(store[k], LAMBDA u, p : UnmaskRegexp(u, p, type)),
                     k, type, store) >= 2

\* unmaskText(text, type): [text, passes, diverged]
RECURSIVE UnmaskLoop(_, _, _, _)
UnmaskLoop(t, type, store, n) ==
    IF ~UnmaskTest(t, type) THEN [text |-> t, passes |-> n, diverged |-> FALSE]
    ELSE IF UnmaskDiverges(t, type, store) THEN [text |-> t, passes |-> n, diverged |-> TRUE]
    ELSE UnmaskLoop(UnmaskPass(t, type, store), type, store, n + 1)

unmaskText(t, type, store) == UnmaskLoop(t, type, store, 0)

-----------------------------------------------------------------------------
(* prependIndentationToLine and the list converter *)

SPACE_AFTER_INDENTATION_CHARS == TRUE

\* a prepend that never puts the space
prependWithoutSpace(indentation, line) == indentation \o line

prependIndentationToLine(indentation, line) ==
    indentation
    \o (IF /\ indentation # <<>>
           /\ SPACE_AFTER_INDENTATION_CHARS
           /\ ~(line # <<>> /\ IsListChar(line[1]))          \* !/^[:*#;]/.test(line)
        THEN <<" ">> ELSE <<>>)
    \o line

\* A ListLineNode is [type, text], a ListContainerNode is [type, items]; a type that
\* is undefined or '' (both falsy) is "".
isListLineNode(node) == "text" \in DOMAIN node

listTagsTermApart(c) == CASE c = ":" -> "dl" [] c = ";" -> "dt" [] c = "*" -> "ul" [] c = "#" -> "ol" [] OTHER -> ""
listTags(c) == CASE c \in {":", ";"} -> "dl" [] c = "*" -> "ul" [] c = "#" -> "ol" [] OTHER -> ""
itemTags(c) == CASE c = ":" -> "dd" [] c = ";" -> "dt" [] c \in {"*", "#"} -> "li" [] OTHER -> ""

\* the characters of a tag name held in a node's type
TypeText(type) ==
    CASE type = "dl" -> <<"d", "l">> [] type = "ul" -> <<"u", "l">>
      [] type = "ol" -> <<"o", "l">> [] type = "dd" -> <<"d", "d">>
      [] type = "dt" -> <<"d", "t">> [] type = "li" -> <<"l", "i">>
      [] OTHER -> <<>>

\* Array.prototype.splice(start, deleteCount, item)
Splice(lines, start, deleteCount, item) ==
    LET from == IF start < 0 THEN Clamp(Len(lines) + start, Len(lines)) ELSE Clamp(start, Len(lines))
        count == Clamp(deleteCount, Len(lines) - from)
    IN SubSeq(lines, 1, from) \o <<item>> \o SubSeq(lines, from + count + 1, Len(lines))

RECURSIVE linesToListsFrom(_, _, _, _)
RECURSIVE lineToList(_, _, _, _)

\* linesToLists(lines, isNested)
linesToLists(lines, isNested) == linesToListsFrom(lines, 0, [type |-> "", items |-> <<>>], isNested)

\* the for loop of linesToLists about to test i <= lines.length
linesToListsFrom(lines, i, list, isNested) ==
    IF i > Len(lines) THEN lines
    ELSE IF i = Len(lines)
    THEN IF list.type # ""
         THEN linesToListsFrom(lineToList(lines, i, list, isNested), i + 1, list, isNested)
         ELSE linesToListsFrom(lines, i + 1, list, isNested)
    ELSE LET node == lines[i + 1]
             txt == IF isListLineNode(node) THEN node.text ELSE <<>>
             firstChar == IF txt = <<>> THEN "" ELSE txt[1]
             listType == listTags(firstChar)
             closes == list.type # "" /\ listType # list.type
             itemsCount == Len(list.items)
             lines1 == IF closes THEN lineToList(lines, i, list, isNested) ELSE lines
             i1 == IF closes THEN i - (itemsCount - 1) ELSE i
             list1 == IF closes THEN [type |-> "", items |-> <<>>] ELSE list
             list2 == IF listType # ""
                      THEN [type |-> listType,
                            items |-> Append(list1.items,
                                             [type |-> itemTags(firstChar), text |-> Tail(txt)])]
                      ELSE list1
         IN linesToListsFrom(lines1, i1 + 1, list2, isNested)

\* lineToList(lines, i, list, isNested): the lines array after the call.  The list
\* object spliced in is the one linesToLists(list.items, true) then rewrites in place.
lineToList(lines, i, list, isNested) ==
    LET done == [list EXCEPT !.items = linesToLists(list.items, TRUE)]
        previousItemIndex == i - Len(list.items) - 1
    IN IF isNested
       THEN IF previousItemIndex >= 0
            THEN Splice(lines, previousItemIndex, Len(list.items) + 1,
                        [type |-> lines[previousItemIndex + 1].type,
                         items |-> <<lines[previousItemIndex + 1], done>>])
            ELSE Splice(lines, i - Len(list.items), Len(list.items),
                        [type |-> lines[1].type, items |-> <<done>>])
       ELSE Splice(lines, i - Len(list.items), Len(list.items), done)

Tag(type) == <<"<">> \o TypeText(type) \o <<">">>
EndTag(type) == <<"<", "/">> \o TypeText(type) \o <<">">>

RECURSIVE listToTags(_, _)
listToTags(lines, isNested) ==
    LET itemText(item) == IF ~isListLineNode(item) THEN listToTags(item.items, TRUE)
                          ELSE Trim(item.text)
        itemTag(item) == IF item.type # "" THEN Tag(item.type) \o itemText(item) \o EndTag(item.type)
                         ELSE itemText(item)
        itemsText(line) ==
            LET J[k \in 0..Len(line.items)] ==
                    IF k = 0 THEN <<>> ELSE J[k - 1] \o itemTag(line.items[k])
            IN J[Len(line.items)]
        lineText(line) == IF ~isListLineNode(line)
                          THEN Tag(line.type) \o itemsText(line) \o EndTag(line.type)
                          ELSE IF isNested THEN Trim(line.text) ELSE line.text
        T[k \in 0..Len(lines)] ==
            IF k = 0 THEN <<>>
            ELSE T[k - 1] \o lineText(lines[k]) \o (IF k # Len(lines) THEN <<NL>> ELSE <<>>)
    IN T[Len(lines)]

\* String.prototype.split('\n')
SplitLines(code) ==
    LET nls == {k \in 1..Len(code) : code[k] = NL}
        R[i \in 1..(Len(code) + 1)] ==
            LET later == {k \in nls : k >= i}
            IN IF later = {} THEN <<SubSeq(code, i, Len(code))>>
               ELSE <<SubSeq(code, i, Min(later) - 1)>> \o R[Min(later) + 1]
    IN R[1]

lineObjects(code) == [k \in 1..Len(SplitLines(code)) |-> [type |-> "", text |-> SplitLines(code)[k]]]

listMarkupToTags(code) == listToTags(linesToLists(lineObjects(code), FALSE), FALSE)

-----------------------------------------------------------------------------
(* findWrapperFlags *)

NoFlags == [areThereTagsAroundMultipleLines |-> FALSE, areThereTagsAroundListMarkup |-> FALSE]

\* /\n[:*#;]/.test(s)
HasNewlineListChar(s) == \E k \in 1..(Len(s) - 1) : s[k] = NL /\ IsListChar(s[k + 1])

\* the flags computed from the matches of the two tag expressions
WrapperFlagsOf(t, matches) ==
    [areThereTagsAroundMultipleLines |->
         \E k \in 1..Len(matches) : NL \in Range(Matched(t, matches[k])),
     areThereTagsAroundListMarkup |->
         \E k \in 1..Len(matches) : HasNewlineListChar(Matched(t, matches[k]))]

findWrapperFlags(t, indentation) ==
    IF indentation = <<>> THEN NoFlags
    ELSE WrapperFlagsOf(t,
             AllMatches(t, LAMBDA u, p : TagsRegexp(u, p, {}, TRUE, {}))
             \o AllMatches(t, LAMBDA u, p :
                    TagsRegexp(u, p, {T_blockquote, T_q}, FALSE,
                               {ClosingTag(T_blockquote), ClosingTag(T_q)})))

-----------------------------------------------------------------------------
(* Regular expressions of handleIndentedComment and processNewlines *)

POPULAR_NOT_INLINE_ELEMENTS ==
    {<<"b", "l", "o", "c", "k", "q", "u", "o", "t", "e">>,
     <<"c", "a", "p", "t", "i", "o", "n">>,
     <<"c", "e", "n", "t", "e", "r">>,
     <<"d", "d">>,
     <<"d", "i", "v">>,
     <<"d", "l">>,
     <<"d", "t">>,
     <<"f", "i", "g", "u", "r", "e">>,
     <<"f", "i", "g", "c", "a", "p", "t", "i", "o", "n">>,
     <<"f", "o", "r", "m">>,
     <<"h", "1">>,
     <<"h", "2">>,
     <<"h", "3">>,
     <<"h", "4">>,
     <<"h", "5">>,
     <<"h", "6">>,
     <<"h", "r">>,
     <<"i", "n", "p", "u", "t">>,
     <<"l", "i">>,
     <<"l", "i", "n", "k">>,
     <<"o", "l">>,
     <<"p">>,
     <<"p", "r", "e">>,
     <<"s", "e", "c", "t", "i", "o", "n">>,
     <<"s", "t", "y", "l", "e">>,
     <<"t", "a", "b", "l", "e">>,
     <<"t", "b", "o", "d", "y">>,
     <<"t", "d">>,
     <<"t", "f", "o", "o", "t">>,
     <<"t", "h">>,
     <<"t", "h", "e", "a", "d">>,
     <<"t", "r">>,
     <<"u", "l">>}

FILE_PREFIXES == {<<"[", "[", "F", "i", "l", "e", ":">>, <<"[", "[", "I", "m", "a", "g", "e", ":">>}

\* a line that starts at p and ends before le ends with "]]" after the prefix f
\* and at least one more character
FileEndsAt(t, p, le) ==
    IF \E f \in FILE_PREFIXES : /\ StartsWithAtCI(t, p, f)
                                /\ le - 2 > p + Len(f)
                                /\ StartsWithAt(t, le - 2, <<"]", "]">>)
    THEN le ELSE 0

\* FILE_PATTERN_END = \[\[(?:File|Image):.+\]\]$ (flags i, m) tried at p
FILE_PATTERN_END(t, p) == FileEndsAt(t, p, LineEnd(t, p))

TableTokenEnd(t, p) == KindTokenEnd(t, p, {K_table}, FALSE)
GalleryTokenEnd(t, p) == KindTokenEnd(t, p, {K_gallery}, FALSE)

\* a token that ends before e (0: no token) is followed by the end of its line
EndsLine(s, e) == e > 0 /\ AtLineEnd(s, e)

\* GALLERY_REGEXP without its m flag
GalleryRegexpNoFlag(s) == GalleryTokenEnd(s, 1) = Len(s) + 1

\* GALLERY_REGEXP = /^<<VOTER_MASK_\d+_gallery_VOTER>>$/m : test(s)
GALLERY_REGEXP(s) ==
    \E p \in 1..Len(s) : AtLineStart(s, p) /\ EndsLine(s, GalleryTokenEnd(s, p))

\* the newlines from s to e, less the last one when the character at e is
\* forbidden: the index after them, 0 when fewer than `least` are left
NewlinesUpTo(t, s, least, forbidden, e) ==
    IF e <= Len(t) /\ t[e] \in forbidden
    THEN (IF e - 1 - s >= least THEN e - 1 ELSE 0)
    ELSE (IF e - s >= least THEN e ELSE 0)

\* (\n+) tried at s and followed by the negative lookahead (?![forbidden])
NewlinesEnd(t, s, least, forbidden) ==
    IF s = 0 THEN 0 ELSE NewlinesUpTo(t, s, least, forbidden, RunEnd(t, s, {NL}))

\* /^ +/gm
LeadingSpacesRe(t, p) ==
    IF AtLineStart(t, p) /\ t[p] = " " THEN RunEnd(t, p, {" "}) ELSE 0

\* "|" at p, [^|=}]* up to q
FieldMarkerAt(t, p, q) ==
    IF q <= Len(t) /\ t[q] = "=" /\ q + 1 <= Len(t) /\ IsListChar(t[q + 1]) THEN q + 1
    ELSE IF p + 1 <= Len(t) /\ IsListChar(t[p + 1]) THEN p + 1
    ELSE 0

\* /\|(?:[^|=}]*=)?(?=[:*#;])/ tried at p
FieldMarkerRe(t, p) ==
    IF t[p] # "|" THEN 0 ELSE FieldMarkerAt(t, p, RunUntil(t, p + 1, {"|", "=", "}"}))

\* a table token or FILE_PATTERN_END at p, given where a table token at p ends
TableOrFileEnd(t, p, tok) == IF tok > 0 THEN tok ELSE FILE_PATTERN_END(t, p)

\* group 2 of the continuation-line expression, tried at p:
\* ([:*#;]|<<VOTER_MASK_\d+_table_VOTER>>|FILE_PATTERN_END)
NextLineStartEnd(t, p) ==
    IF p <= Len(t) /\ IsListChar(t[p]) THEN p + 1
    ELSE TableOrFileEnd(t, p, TableTokenEnd(t, p))

\* (\n+)([:*#;]|<<VOTER_MASK_\d+_table_VOTER>>|FILE_PATTERN_END), flags gmi
ContinuationRe(t, p) ==
    IF t[p] = NL THEN NextLineStartEnd(t, RunEnd(t, p, {NL})) ELSE 0

\* /(^|[^\n])(<<VOTER_MASK_\d+_gallery_VOTER>>)/g
GalleryBeforeRe(t, p) ==
    GalleryTokenEnd(t, IF p = 1 /\ StartsWithAt(t, 1, MASK_PREFIX) THEN 1
                       ELSE IF t[p] # NL THEN p + 1
                       ELSE Len(t) + 1)

\* a token that ends before e is followed by the end of the text or by a
\* character other than "\n"
NotBeforeNewline(t, e) == IF e > 0 /\ (e = Len(t) + 1 \/ t[e] # NL) THEN e ELSE 0

\* /<<VOTER_MASK_\d+_gallery_VOTER>>(?=(?:$|[^\n]))/g
GalleryAfterRe(t, p) == NotBeforeNewline(t, GalleryTokenEnd(t, p))

\* a table or gallery token that ends before tok is followed by "\n"
TokenLineEnd(t, tok) == IF tok > 0 /\ tok <= Len(t) /\ t[tok] = NL THEN tok ELSE 0

\* [:*#;].+ from p to the end le of the line, followed by "\n"
ListLineEnd(t, p, le) == IF le >= p + 2 /\ le <= Len(t) THEN le ELSE 0

\* group 1 of the list-item expression tried at p:
\* ((?:[:*#;].+|<<VOTER_MASK_\d+_(?:table|gallery)_VOTER>>)) followed by "\n"
PreviousLineEnd(t, p) ==
    IF ~AtLineStart(t, p) THEN 0
    ELSE IF IsListChar(t[p]) THEN ListLineEnd(t, p, LineEnd(t, p))
    ELSE TokenLineEnd(t, KindTokenEnd(t, p, {K_table, K_gallery}, FALSE))

\* /^((?:[:*#;].+|<<VOTER_MASK_\d+_(?:table|gallery)_VOTER>>))(\n+)(?![:#])/mg
AfterListItemRe(t, p) == NewlinesEnd(t, PreviousLineEnd(t, p), 1, {":", "#"})

\* /^(.*)\n\n+(?!:)/gm
ParagraphRe(t, p) ==
    IF ~AtLineStart(t, p) THEN 0 ELSE NewlinesEnd(t, LineEnd(t, p), 2, {":"})

\* the text without its trailing spaces ( *$ )
DropTrailing(s, keep) == IF keep = {} THEN <<>> ELSE SubSeq(s, 1, Max(keep))

DropTrailingSpaces(s) == DropTrailing(s, {k \in 1..Len(s) : s[k] # " "})

\* a token that ends before e is followed by spaces only
OnlySpacesFrom(line, e) == e > 0 /\ \A k \in e..Len(line) : line[k] = " "

\* entireLineRegexp = /^<<VOTER_MASK_\d+_(block|template)(?:_\d+)?_VOTER>> *$/
entireLineRegexp(line) ==
    OnlySpacesFrom(line, KindTokenEnd(line, 1, {K_block, K_template}, TRUE))

\* ^(=+).*\1[ \t]*$ on a line whose text before the trailing blanks is body
HeadingLine(body) == Len(body) >= 2 /\ body[1] = "=" /\ body[Len(body)] = "="

\* entireLineFromStartRegexp = /^(=+).*\1[ \t]*$|^----/
entireLineFromStartRegexp(line) ==
    \/ NL \notin Range(line) /\ HeadingLine(DropTrailingSpaces(line))
    \/ StartsWithAt(line, 1, <<"-", "-", "-", "-">>)

\* fileRegexp = new RegExp('^' + FILE_PATTERN_END, 'i')
fileRegexp(line) == FILE_PATTERN_END(line, 1) = Len(line) + 1

\* [\w ]+?=[^<>]+? : r with its first "=" at index q
ElementAttrsSplitOk(r, q) ==
    /\ q >= 3
    /\ q < Len(r)
    /\ \A k \in 2..(q - 1) : r[k] \in WORD_CHARS \cup {" "}
    /\ \A k \in (q + 1)..Len(r) : r[k] \notin {"<", ">"}

\* the part of a tag after a not-inline element's name: (?: [\w ]+?=[^<>]+?| ?\/?)
ElementAttrsOk(r) ==
    \/ r \in {<<>>, <<" ">>, <<"/">>, <<" ", "/">>}
    \/ /\ Len(r) >= 4
       /\ r[1] = " "
       /\ ElementAttrsSplitOk(r, RunUntil(r, 2, {"="}))

\* <NAME(?: [\w ]+?=[^<>]+?| ?\/?)> : the text between "<" and ">"
ElementOpens(s) ==
    \E n \in POPULAR_NOT_INLINE_ELEMENTS :
        StartsWithAtCI(s, 1, n) /\ ElementAttrsOk(SubSeq(s, Len(n) + 1, Len(s)))

\* </NAME> : the text between "<" and ">"
ElementCloses(s) ==
    s # <<>> /\ s[1] = "/" /\ LowerText(SubSeq(s, 2, Len(s))) \in POPULAR_NOT_INLINE_ELEMENTS

\* <br[ \n]*\/?> : the text between "<" and ">"
LineBreakTag(s) ==
    /\ StartsWithAtCI(s, 1, <<"b", "r">>)
    /\ \A k \in 3..Len(s) : s[k] \in {" ", NL} \/ (k = Len(s) /\ s[k] = "/")

\* the text between the last "<" of body and its final ">" is that of one of the tags
LastTagOk(inner) ==
    /\ ">" \notin Range(inner)
    /\ (ElementOpens(inner) \/ ElementCloses(inner) \/ LineBreakTag(inner))

EndsWithTag(body, lts) ==
    lts # {} /\ LastTagOk(SubSeq(body, Max(lts) + 1, Len(body) - 1))

\* currentLineEndingRegexp on a line whose text before the trailing spaces is body
LineEnding(body, isInTemplate) ==
    /\ body # <<>>
    /\ \/ isInTemplate /\ body[Len(body)] = "="
       \/ \E p \in 1..Len(body) : KindTokenEnd(body, p, {K_block}, FALSE) = Len(body) + 1
       \/ body[Len(body)] = ">" /\ EndsWithTag(body, {k \in 1..Len(body) : body[k] = "<"})

\* currentLineEndingRegexp.test(line)
currentLineEndingRegexp(line, isInTemplate) ==
    LineEnding(DropTrailingSpaces(line), isInTemplate)

\* nextLineBeginningRegexp.test(line)
nextLineBeginningRegexp(line, isInTemplate) ==
    \/ StartsWithAt(line, 1, <<"<", "/">>)
       /\ \E n \in POPULAR_NOT_INLINE_ELEMENTS : StartsWithAtCI(line, 3, n \o <<">">>)
    \/ StartsWithAt(line, 1, <<"<">>)
       /\ \E n \in POPULAR_NOT_INLINE_ELEMENTS : StartsWithAtCI(line, 2, n)
    \/ isInTemplate /\ (StartsWithAt(line, 1, <<"|">>) \/ StartsWithAt(line, 1, <<"}", "}">>))

\* the line from p to le is followed by "\n" at le and the next line at n = le + 1
NewlinesAt(t, p, le, n, indentation) ==
    IF /\ le > p
       /\ le <= Len(t)
       /\ IF indentation # <<>>
          THEN ~(n <= Len(t) /\ t[n] \in {":", "#"})
          ELSE /\ t[p] \notin LIST_CHARS \cup {" "}
               /\ ~(n <= Len(t) /\ t[n] \in LIST_CHARS \cup {" ", NL})
               /\ TableTokenEnd(t, n) = 0
    THEN n ELSE 0

\* newlinesRegexp of processNewlines tried at p:
\*   indentation:    /^(.+)\n(?![:#])(?=(.*))/gm
\*   no indentation: /^((?![:*#; ]).+)\n(?![\n:*#; ]|<<VOTER_MASK_\d+_table_VOTER>>)(?=(.*))/gm
newlinesRegexp(t, p, indentation) ==
    IF AtLineStart(t, p) THEN NewlinesAt(t, p, LineEnd(t, p), LineEnd(t, p) + 1, indentation)
    ELSE 0

-----------------------------------------------------------------------------
(* handleIndentedComment, processNewlines, processCode *)

NoError == "none"

\* /^[:*#;]/m.test(code)
HasListLine(code) == \E p \in 1..Len(code) : AtLineStart(code, p) /\ IsListChar(code[p])

\* /<<VOTER_MASK_\d+_table_VOTER>>/.test(code)
HasTableToken(code) == \E p \in 1..Len(code) : TableTokenEnd(code, p) > 0

\* code.replace(/^ +/gm, '')
StripLeadingSpaces(code) == ReplaceAll(code, LeadingSpacesRe, LAMBDA k, m : <<>>)

\* code.replace(/\|(?:[^|=}]*=)?(?=[:*#;])/, '$&\n') when in a template
SplitFieldMarker(code, isInTemplate) ==
    IF isInTemplate
    THEN ReplaceFirst(code, FieldMarkerRe, LAMBDA k, m : Matched(code, m) \o <<NL>>)
    ELSE code

\* the list markup step of handleIndentedComment
HandleListMarkup(code, restLinesIndentation, isWrapped, isInTemplate) ==
    IF HasListLine(code) /\ (isWrapped \/ restLinesIndentation = <<"#">>)
    THEN listMarkupToTags(SplitFieldMarker(code, isInTemplate))
    ELSE code

\* the callback of the continuation-line step for the match m whose newlines end
\* before e1
ContinuationText(code, restLinesIndentation, m, e1) ==
    (IF e1 - m[1] > 1 THEN <<NL, NL, NL>> ELSE <<NL>>)
    \o prependIndentationToLine(restLinesIndentation, SubSeq(code, e1, m[2] - 1))

\* the continuation-line step: (\n+)(...) -> newlines + indented next line
HandleContinuation(code, restLinesIndentation) ==
    ReplaceAll(code, ContinuationRe,
        LAMBDA k, m : ContinuationText(code, restLinesIndentation, m, RunEnd(code, m[1], {NL})))

\* `${before}\n${marker}` for the match m; before is empty when the token is at m[1]
GalleryBeforeText(code, m) ==
    IF StartsWithAt(code, m[1], MASK_PREFIX)
    THEN <<NL>> \o Matched(code, m)
    ELSE <<code[m[1]], NL>> \o SubSeq(code, m[1] + 1, m[2] - 1)

GalleriesBefore(code) ==
    ReplaceAll(code, GalleryBeforeRe, LAMBDA k, m : GalleryBeforeText(code, m))

GalleriesAfter(code) ==
    ReplaceAll(code, GalleryAfterRe, LAMBDA k, m : Matched(code, m) \o <<NL>>)

\* the two gallery steps: a gallery token is put on a line of its own
HandleGalleries(code) == GalleriesAfter(GalleriesBefore(code))

\* the callback of the list-item step for the match m whose previous line ends
\* before pe
AfterListItemText(code, restLinesIndentation, m, pe) ==
    SubSeq(code, m[1], pe - 1) \o <<NL>>
    \o prependIndentationToLine(restLinesIndentation,
                                IF m[2] - pe > 1 THEN <<NL, NL>> ELSE <<>>)

\* the list-item step: the line after a list item or a table/gallery token gets indented
HandleAfterListItem(code, restLinesIndentation) ==
    ReplaceAll(code, AfterListItemRe,
        LAMBDA k, m : AfterListItemText(code, restLinesIndentation, m,
                                        PreviousLineEnd(code, m[1])))

\* the paragraph step with a forced line break whatever the flags
ParagraphBreakForced(restLinesIndentation, flags) == <<"<", "b", "r", ">", " ", NL>>

\* what the paragraph step puts after $1 (PARAGRAPH_TEMPLATES is empty)
ParagraphBreak(restLinesIndentation, flags) ==
    IF flags.areThereTagsAroundMultipleLines
    THEN <<"<", "b", "r", ">", " ", NL>>
    ELSE <<NL>> \o prependIndentationToLine(restLinesIndentation, <<>>)

\* the paragraph step
HandleParagraphs(code, restLinesIndentation, flags) ==
    ReplaceAll(code, ParagraphRe,
        LAMBDA k, m : SubSeq(code, m[1], LineEnd(code, m[1]) - 1)
                      \o ParagraphBreak(restLinesIndentation, flags))

\* handleIndentedComment from its two throw statements on
HandleChecks(code, restLinesIndentation, flags) ==
    IF "#" \in Range(restLinesIndentation) /\ HasTableToken(code)
    THEN [text |-> code, error |-> "numberedList-table"]
    ELSE IF restLinesIndentation = <<"#">> /\ GALLERY_REGEXP(code)
    THEN [text |-> code, error |-> "numberedList"]
    ELSE [text |-> HandleParagraphs(HandleAfterListItem(code, restLinesIndentation),
                                    restLinesIndentation, flags),
          error |-> NoError]

\* handleIndentedComment: [text, error]; error is the message of the Error thrown
handleIndentedComment(code, indentation, restLinesIndentation, isWrapped, isInTemplate, flags) ==
    IF indentation = <<>> THEN [text |-> code, error |-> NoError]
    ELSE HandleChecks(
             HandleGalleries(
                 HandleContinuation(
                     HandleListMarkup(StripLeadingSpaces(code), restLinesIndentation,
                                      isWrapped, isInTemplate),
                     restLinesIndentation)),
             restLinesIndentation, flags)

BR == <<"<", "b", "r", ">">>

\* lineBreakOrNot of the callback of processNewlines
lineBreakOrNot(currentLine, nextLine, indentation, isInTemplate) ==
    IF \/ entireLineRegexp(currentLine)
       \/ entireLineRegexp(nextLine)
       \/ /\ indentation = <<>>
          /\ \/ entireLineFromStartRegexp(currentLine)
             \/ entireLineFromStartRegexp(nextLine)
       \/ fileRegexp(currentLine)
       \/ fileRegexp(nextLine)
       \/ GALLERY_REGEXP(currentLine)
       \/ GALLERY_REGEXP(nextLine)
       \/ currentLineEndingRegexp(currentLine, isInTemplate)
       \/ nextLineBeginningRegexp(nextLine, isInTemplate)
    THEN <<>>
    ELSE BR \o (IF indentation # <<>> THEN <<" ">> ELSE <<>>)

newlineOrNot(nextLine, indentation) ==
    IF indentation # <<>> /\ ~GALLERY_REGEXP(nextLine) THEN <<>> ELSE <<NL>>

\* the callback of processNewlines
NewlineText(currentLine, nextLine, indentation, isInTemplate) ==
    currentLine \o lineBreakOrNot(currentLine, nextLine, indentation, isInTemplate)
    \o newlineOrNot(nextLine, indentation)

processNewlines(code, indentation, isInTemplate) ==
    ReplaceAll(code, LAMBDA t, p : newlinesRegexp(t, p, indentation),
        LAMBDA k, m : NewlineText(SubSeq(code, m[1], m[2] - 2),
                                  SubSeq(code, m[2], LineEnd(code, m[2]) - 1),
                                  indentation, isInTemplate))

\* processCode after handleIndentedComment has returned or thrown
ProcessNewlinesOf(r, indentation, isInTemplate) ==
    IF r.error # NoError THEN r
    ELSE [text |-> processNewlines(r.text, indentation, isInTemplate), error |-> NoError]

processCode(code, indentation, restLinesIndentation, flags, isInTemplate) ==
    ProcessNewlinesOf(
        handleIndentedComment(code, indentation, restLinesIndentation,
                              isInTemplate \/ flags.areThereTagsAroundListMarkup,
                              isInTemplate, flags),
        indentation, isInTemplate)

-----------------------------------------------------------------------------
(* TextMasker.maskTemplatesRecursively and maskSensitiveCode *)

OPEN == <<"{", "{">>
CLOSE == <<"}", "}">>

\* one turn of the while loop of maskTemplatesRecursively: which branch it takes
ScanLeft(t, p) == IndexOf(t, OPEN, p)
ScanRight(t, p) == IndexOf(t, CLOSE, p)
PushesAt(left, right) == left # -1 /\ left < right
ScanPushes(t, p) == PushesAt(ScanLeft(t, p), ScanRight(t, p))
ScanBreaks(t, p, stk) == ~ScanPushes(t, p) /\ stk = <<>>

RightOfCloser(t, right) == right + 2

\* right of the else branch: the end of the text when no "}}" is found, plus 2
RightOf(t, right) == (IF right = -1 THEN Len(t) ELSE right) + 2

\* the span <<left, right>> cut out by the else branch: left is popped from the
\* stack.  (The branch for an undefined left is not reachable: the loop breaks
\* on an empty stack.)
TemplateSpan(t, p, stk) == <<stk[Len(stk)], RightOf(t, ScanRight(t, p))>>

\* this.text.substring(left, right)
SpanText(t, span) == Substring(t, span[1], span[2])

\* the else branch after the handler has returned `template` for the span;
\* addLengths is false in every call, so the token carries no length
MaskSpan(m, stk, span, template) ==
    [text |-> Substring(m.text, 0, span[1])
              \o Token(Len(m.maskedTexts) + 1, K_template)
              \o Slice(m.text, span[2]),
     maskedTexts |-> Append(m.maskedTexts, template),
     pos |-> span[2] - Len(template),
     stack |-> SubSeq(stk, 1, Len(stk) - 1)]

\* the else branch without a handler
MaskPlainSpan(m, stk, span) == MaskSpan(m, stk, span, SpanText(m.text, span))

\* maskTemplatesRecursively() without a handler, from the loop state of n
RECURSIVE ScanLoop(_)
ScanStep(n, left, right) ==
    IF PushesAt(left, right)
    THEN ScanLoop([n EXCEPT !.pos = left + 2, !.stack = Append(n.stack, left)])
    ELSE IF n.stack = <<>> THEN n
    ELSE ScanLoop(MaskPlainSpan(n, n.stack, <<n.stack[Len(n.stack)], RightOf(n.text, right)>>))

ScanLoop(n) == ScanStep(n, ScanLeft(n.text, n.pos), ScanRight(n.text, n.pos))

maskTemplatesRecursively(m) ==
    ScanLoop([text |-> m.text, maskedTexts |-> m.maskedTexts, pos |-> 0, stack |-> <<>>])

\* the three maskTags calls that open maskSensitiveCode
MaskSensitiveTags(m) ==
    maskTags(maskTags(maskTags(m, {T_pre, T_source, T_syntaxhighlight}, K_block),
                      {T_gallery, T_poem}, K_gallery),
             {T_nowiki}, K_inline)

TABLE_CLOSED == [re |-> "table", closed |-> TRUE]       \* /^(:* *)(\{\|[^]*?\n\|\})/gm
TABLE_OPEN == [re |-> "table", closed |-> FALSE]        \* /^(:* *)(\{\|[^]*\n\|)/gm

\* the two table mask calls that close maskSensitiveCode
MaskSensitiveTables(m) == mask(mask(m, TABLE_CLOSED, K_table, TRUE), TABLE_OPEN, K_table, TRUE)

\* indentation.replace(/\*/g, ':')
restLinesIndentation(indentation) ==
    [k \in 1..Len(indentation) |-> IF indentation[k] = "*" THEN ":" ELSE indentation[k]]

\* the handler buildWikitext hands to maskSensitiveCode
templateHandler(templateCode, indentation) ==
    processCode(templateCode, indentation, restLinesIndentation(indentation), NoFlags, TRUE)

\* the choice of the final indentation with ":" among the characters tested
finalIndentationAnyListChar(indentation, block) ==
    IF indentation # <<>> /\ block # <<>> /\ IsListChar(block[1])
    THEN restLinesIndentation(indentation) ELSE indentation

\* finalIndentation of buildWikitext for the block `block` (/^[*#;\x03]/)
finalIndentation(indentation, block) ==
    IF indentation # <<>> /\ block # <<>> /\ block[1] \in {"*", "#", ";"}
    THEN restLinesIndentation(indentation) ELSE indentation

\* the texts and indentation markers the calls are made with
Pieces ==
    <<<<"a">>,
      <<"\n">>,
      <<":">>,
      <<"#">>,
      <<"*">>,
      <<" ">>,
      <<"{", "{">>,
      <<"}", "}">>,
      <<"|">>,
      <<"<", "g", "a", "l", "l", "e", "r", "y", ">", "x", "<", "/", "g", "a", "l", "l", "e", "r", "y", ">">>,
      <<"{", "|", "\n", "|", "}">>,
      <<"<", "n", "o", "w", "i", "k", "i", ">", "y", "<", "/", "n", "o", "w", "i", "k", "i", ">">>,
      <<"<", "<", "V", "O", "T", "E", "R", "_", "M", "A", "S", "K", "_", "1", "_", "V", "O", "T", "E", "R", ">", ">">>,
      <<"<", "q", ">">>,
      <<"<", "/", "q", ">">>>>

Samples ==
    {<<"h", "e", "l", "l", "o">>,
     <<"a", "\n", "b">>,
     <<"a", "\n", "<", "g", "a", "l", "l", "e", "r", "y", ">", "x", "<", "/", "g", "a", "l", "l", "e", "r", "y", ">", "\n", "b">>,
     <<":", " ", "a", "\n", ":", ":", " ", "b", "\n", ":", "#", " ", "c", "\n", ":", "{", "|", "\n", "|", "}">>,
     <<"#", " ", "a", "\n", "{", "|", "\n", "b", "\n", "|", "}">>,
     <<"{", "{", "<", "<", "V", "O", "T", "E", "R", "_", "M", "A", "S", "K", "_", "1", "_", "V", "O", "T", "E", "R", ">", ">", "}", "}">>,
     <<"x", " ", "<", "<", "V", "O", "T", "E", "R", "_", "M", "A", "S", "K", "_", "1", "_", "V", "O", "T", "E", "R", ">", ">", " ", "y">>,
     <<"{", "{", "a", "|", "{", "{", "b", "}", "}", "}", "}">>,
     <<"{", "{", "a", "\n", "|", "b", "=", "\n", ":", "c", "}", "}">>,
     <<"a", "\n", "\n", "\n", "b">>,
     <<"<", "p", "r", "e", ">", "\n", ":", "z", "<", "/", "p", "r", "e", ">", "\n", "b">>,
     <<"{", "{", "c", "|", "<", "g", "a", "l", "l", "e", "r", "y", ">", "x", "<", "/", "g", "a", "l", "l", "e", "r", "y", ">", "}", "}", "\n", "{", "|", "\n", "|", "}">>,
     <<":", " ", "a", "\n", ":", ":", " ", "b", "\n", ":", "#", " ", "c", "\n", ":", "<", "g", "a", "l", "l", "e", "r", "y", ">", "x", "<", "/", "g", "a", "l", "l", "e", "r", "y", ">">>,
     <<" ", "a", " ", "{", "{", "b">>,
     <<"=", "=", " ", "h", " ", "=", "=", "\n", "b">>,
     <<"<", "d", "i", "v", ">", "\n", "*", " ", "a", "\n", "<", "/", "d", "i", "v", ">">>}

\* further texts: a term line, unbalanced template delimiters, paragraphs
MoreSamples ==
    {<<";", " ", "a">>,
     <<"{", "{", "a", "|", "{", "{", "b", "|", "{", "{", "c", "}", "}", "}", "}", "}", "}">>,
     <<"{", "{", "a", "}", "}", " ", "{", "{", "b", "|", "{", "{", "c", "}", "}", "}", "}">>,
     <<"{", "{", "a", "|", "{", "{", "b", "\n", "c", "}", "}", "}", "}", " ", "{", "{", "e", "}", "}">>,
     <<"{", "{">> \o Token(1, <<>>) \o Token(1, <<>>) \o <<"}", "}">>,
     <<"{", "{", "c", "\n", "{", "|", "\n", "|", "}", "\n", "}", "}">>}

Indents == {<<>>, <<":">>, <<"*">>, <<"#">>, <<"*", "#">>}

MaxPieces == 2

\* every text made of at most n pieces
RECURSIVE Concats(_)
Concats(n) ==
    IF n = 0 THEN {<<>>}
    ELSE Concats(n - 1) \cup {a \o Pieces[k] : a \in Concats(n - 1), k \in 1..Len(Pieces)}

\* every one-line text made of at most n of: a letter, a space, "{{", "}}"
MaxBraces == 4

BracePieces == <<<<"a">>, <<" ">>, <<"{", "{">>, <<"}", "}">>>>

RECURSIVE BraceTexts(_)
BraceTexts(n) ==
    IF n = 0 THEN {<<>>}
    ELSE BraceTexts(n - 1) \cup {a \o BracePieces[k] : a \in BraceTexts(n - 1), k \in 1..Len(BracePieces)}

Inputs == Samples \cup MoreSamples \cup Concats(MaxPieces) \cup BraceTexts(MaxBraces)


\* vote has not been called: no ids, no voteAPI call made, no answer and no result
NoCall == [voteIDs |-> <<>>, k |-> 0, calls |-> 0, res |-> <<>>, returned |-> "none", refresh |-> 0]

\* the vote dialog is not in use
NoMount == [present |-> FALSE, apps |-> {}]

\* no dialog was opened on the page
NoPage ==
    /\ voteMessageCache = <<>>
    /\ entryInfoPromiseCache = <<>>
    /\ loads = <<>>
    /\ mountedApp = 0
    /\ mountElement = NoMount
    /\ timers = 0
    /\ apps = <<>>

NoVote ==
    /\ NoPage
    /\ state = [pageName |-> "", sectionTitles |-> <<>>, validVoteTemplates |-> <<>>]
    /\ dialog = [open |-> FALSE, isSubmitting |-> FALSE, currentStep |-> 0, totalSteps |-> 3,
                 selectedEntries |-> <<>>, entryInfoHtml |-> <<>>, entryInfoById |-> {},
                 isLoadingInfo |-> FALSE, voteMessages |-> <<>>, useBulleted |-> TRUE]
    /\ voting = NoCall
    /\ edits = <<>>
    /\ notices = <<>>
-----------------------------------------------------------------------------
(* buildWikitext(text, indent), one step of its loops at a time *)

masker == [text |-> text, maskedTexts |-> maskedTexts]

Init ==
    /\ input \in Inputs
    /\ indent \in Indents
    /\ text = <<>>
    /\ maskedTexts = <<>>
    /\ pc = "start"
    /\ pos = 0
    /\ stack = <<>>
    /\ unmaskType = <<>>
    /\ NoVote
    /\ passes = 0
    /\ result = <<>>
    /\ error = NoError
    /\ aux = <<>>

\* the masker takes the text and the store of m
MaskerBecomes(m) ==
    /\ text' = m.text
    /\ maskedTexts' = m.maskedTexts

\* new TextMasker((text || '').trim()) and the three maskTags calls
Start ==
    /\ pc = "start"
    /\ MaskerBecomes(MaskSensitiveTags([text |-> Trim(input), maskedTexts |-> <<>>]))
    /\ pc' = "scan"
    /\ UNCHANGED <<voteVars, input, unmaskType, indent, pos, stack, passes, result, error, aux>>

\* maskTemplatesRecursively: the branch that pushes the opening "{{" found at left
PushOpening(left) ==
    /\ stack' = Append(stack, left)
    /\ pos' = left + 2

TemplateOpen ==
    /\ pc = "scan"
    /\ ScanPushes(text, pos)
    /\ PushOpening(ScanLeft(text, pos))
    /\ UNCHANGED <<voteVars, input, unmaskType, indent, text, maskedTexts, pc, passes, result, error, aux>>

\* the loop of maskTemplatesRecursively goes on from the state n
ScanBecomes(n) ==
    /\ MaskerBecomes(n)
    /\ pos' = n.pos
    /\ stack' = n.stack

\* the handler has returned or thrown r for the span
HandlerReturns(span, r) ==
    IF r.error # NoError
    THEN /\ pc' = "error"
         /\ error' = r.error
         /\ UNCHANGED <<text, maskedTexts, pos, stack>>
    ELSE /\ ScanBecomes(MaskSpan(masker, stack, span, r.text))
         /\ UNCHANGED <<pc, error>>

HandleSpan(span) == HandlerReturns(span, templateHandler(SpanText(text, span), indent))

\* maskTemplatesRecursively: the branch that pops, runs the handler on the span
\* and masks it; an Error thrown by the handler leaves buildWikitext
TemplateClose ==
    /\ pc = "scan"
    /\ ~ScanPushes(text, pos)
    /\ stack # <<>>
    /\ HandleSpan(TemplateSpan(text, pos, stack))
    /\ UNCHANGED <<voteVars, input, unmaskType, indent, passes, result, aux>>

\* maskTemplatesRecursively breaks out of its loop; maskSensitiveCode masks the tables
ScanDone ==
    /\ pc = "scan"
    /\ ScanBreaks(text, pos, stack)
    /\ MaskerBecomes(MaskSensitiveTables(masker))
    /\ pc' = "process"
    /\ UNCHANGED <<voteVars, input, unmaskType, indent, pos, stack, passes, result, error, aux>>

\* processCode on the whole body has returned or thrown r
BodyProcessedNoNewline(r) ==
    IF r.error # NoError
    THEN /\ pc' = "error"
         /\ error' = r.error
         /\ UNCHANGED text
    ELSE /\ text' = r.text
         /\ pc' = "indent"
         /\ UNCHANGED error

BodyProcessed(r) ==
    IF r.error # NoError
    THEN /\ pc' = "error"
         /\ error' = r.error
         /\ UNCHANGED text
    ELSE /\ text' = r.text \o <<NL>>
         /\ pc' = "indent"
         /\ UNCHANGED error

\* findWrapperFlags, processCode on the whole body, and the closing newline
Process ==
    /\ pc = "process"
    /\ BodyProcessed(processCode(text, indent, restLinesIndentation(indent),
                                 findWrapperFlags(text, indent), FALSE))
    /\ UNCHANGED <<voteVars, input, unmaskType, indent, maskedTexts, pos, stack, passes, result, aux>>

\* the final indentation is chosen and prepended
Indent ==
    /\ pc = "indent"
    /\ text' = prependIndentationToLine(finalIndentation(indent, text), text)
    /\ pc' = "unmask"
    /\ UNCHANGED <<voteVars, input, unmaskType, indent, maskedTexts, pos, stack, passes, result, error, aux>>

\* masker.unmask(type): one turn of the while loop of unmaskText
UnmaskTurn ==
    /\ pc = "unmask"
    /\ UnmaskTest(text, unmaskType)
    /\ ~UnmaskDiverges(text, unmaskType, maskedTexts)
    /\ text' = UnmaskPass(text, unmaskType, maskedTexts)
    /\ passes' = passes + 1
    /\ UNCHANGED <<voteVars, input, unmaskType, indent, maskedTexts, pc, pos, stack, result, error, aux>>

\* masker.unmask(type): the while loop doubles the text until replace throws a
\* RangeError, which leaves buildWikitext
UnmaskOverflow ==
    /\ pc = "unmask"
    /\ UnmaskTest(text, unmaskType)
    /\ UnmaskOverflows(text, unmaskType, maskedTexts)
    /\ pc' = "error"
    /\ error' = "RangeError"
    /\ UNCHANGED <<voteVars, input, unmaskType, indent, text, maskedTexts, pos, stack, passes, result, aux>>

\* masker.unmask(type): the while loop is in a run of turns that has no end
UnmaskForever ==
    /\ pc = "unmask"
    /\ UnmaskTest(text, unmaskType)
    /\ UnmaskDiverges(text, unmaskType, maskedTexts)
    /\ ~UnmaskOverflows(text, unmaskType, maskedTexts)
    /\ pc' = "diverged"
    /\ UNCHANGED <<voteVars, input, unmaskType, indent, text, maskedTexts, pos, stack, passes, result, error, aux>>

\* the while loop of unmaskText ends and buildWikitext returns masker.text
Return ==
    /\ pc = "unmask"
    /\ ~UnmaskTest(text, unmaskType)
    /\ result' = text
    /\ pc' = "done"
    /\ UNCHANGED <<voteVars, input, unmaskType, indent, text, maskedTexts, pos, stack, passes, error, aux>>

Next ==
    \/ Start
    \/ TemplateOpen
    \/ TemplateClose
    \/ ScanDone
    \/ Process
    \/ Indent
    \/ UnmaskTurn
    \/ UnmaskOverflow
    \/ UnmaskForever
    \/ Return

Spec == Init /\ [][Next]_vars

-----------------------------------------------------------------------------
(* TextMasker on its own: mask calls in any order, then unmask() *)

MaxMasks == 3

\* texts that put the masker's expressions next to what they must not take
MaskSamples ==
    {<<"{", "{", "a", "{", "{", "b", "{", "{", "c", "{", "{", "d", "{", "{", "e", "}", "}", "}", "}", "}", "}", "}", "}", "}", "}">>,
     <<":", " ", "{", "|", "\n", "x", "\n", "|", "}", "\n", "y">>,
     <<"{", "|", "\n", "a", "\n", "|", "b">>,
     <<"<", "p", "r", "e", ">", "{", "{", "a", "}", "}", "<", "/", "p", "r", "e", ">">>,
     <<"{", "{", "a", "|", "<", "n", "o", "w", "i", "k", "i", ">", "{", "{", "b", "<", "/", "n", "o", "w", "i", "k", "i", ">", "}", "}">>,
     <<"{", "{", "a", "}", "}", "_", "V", "O", "T", "E", "R", ">", ">">>,
     <<"<", "<", "V", "O", "T", "E", "R", "_", "M", "A", "S", "K", "_", "1", "{", "{", "a", "}", "}">>,
     <<"<", "<", "V", "O", "T", "E", "R", "_", "M", "A", "S", "K", "_", "{", "{", "a", "}", "}">>,
     <<"<", "<", "V", "O", "T", "E", "R", "_", "M", "A", "S", "K", "_", "2", "_", "V", "O", "T", "E", "R", ">", ">", "{", "{", "a", "}", "}">>,
     <<"<", "P", "o", "e", "m", " ", "a", "=", "b", ">", "\n", "{", "|", "\n", "|", "}", "<", "/", "p", "O", "E", "M", ">">>}

MaskInputs == MaskSamples \cup Inputs

\* the tag groups maskSensitiveCode masks
TagGroups ==
    {[tags |-> {T_pre, T_source, T_syntaxhighlight}, type |-> K_block],
     [tags |-> {T_gallery, T_poem}, type |-> K_gallery],
     [tags |-> {T_nowiki}, type |-> K_inline]}

\* /<<VOTER_MASK_(\d+)(?:_\w+(?:_\d+)?)?_VOTER>>/.test(t)
HasToken(t) == \E p \in 1..Len(t) : MASK_ANY_REGEXP(t, p) > 0

\* new TextMasker(text); aux is the number of mask calls made so far
MaskInit ==
    /\ input \in MaskInputs
    /\ indent = <<>>
    /\ text = input
    /\ maskedTexts = <<>>
    /\ pc = "mask"
    /\ pos = 0
    /\ stack = <<>>
    /\ unmaskType = <<>>
    /\ NoVote
    /\ passes = 0
    /\ result = <<>>
    /\ error = NoError
    /\ aux = 0

\* a mask call has left the masker as m
MaskCalled(m) ==
    /\ MaskerBecomes(m)
    /\ aux' = aux + 1
    /\ UNCHANGED <<voteVars, input, unmaskType, indent, pc, pos, stack, passes, result, error>>

\* masker.maskTags(tags, type)
MaskTags ==
    /\ pc = "mask"
    /\ aux < MaxMasks
    /\ \E g \in TagGroups : MaskCalled(maskTags(masker, g.tags, g.type))

\* masker.maskTemplatesRecursively()
MaskTemplates ==
    /\ pc = "mask"
    /\ aux < MaxMasks
    /\ MaskCalled(maskTemplatesRecursively(masker))

\* masker.mask(regexp, 'table', true) with one of the two table expressions
MaskTables ==
    /\ pc = "mask"
    /\ aux < MaxMasks
    /\ \E rx \in {TABLE_CLOSED, TABLE_OPEN} : MaskCalled(mask(masker, rx, K_table, TRUE))

\* masker.unmask() is called
CallUnmask ==
    /\ pc = "mask"
    /\ pc' = "unmask"
    /\ UNCHANGED <<voteVars, input, unmaskType, indent, text, maskedTexts, pos, stack, passes, result, error, aux>>

MaskNext ==
    \/ MaskTags
    \/ MaskTemplates
    \/ MaskTables
    \/ CallUnmask
    \/ UnmaskTurn
    \/ UnmaskOverflow
    \/ UnmaskForever
    \/ Return

SpecMask == MaskInit /\ [][MaskNext]_vars

-----------------------------------------------------------------------------
(* listMarkupToTags on its own *)

MaxLines == 4

\* the list prefixes of the lines
Prefixes == {<<>>, <<"*">>, <<"*", "*">>, <<"*", "#">>, <<":">>, <<";">>, <<"#">>}

\* n lines, line k being the prefix f[k], a space and the k-th letter
LinesText(f, n) ==
    LET J[k \in 1..n] == (IF k = 1 THEN <<>> ELSE J[k - 1] \o <<NL>>) \o f[k] \o <<" ", LOWER[k]>>
    IN J[n]

ListInputs == UNION {{LinesText(f, n) : f \in [1..n -> Prefixes]} : n \in 1..MaxLines}

\* aux will be the array linesToLists returns
ListInit ==
    /\ input \in ListInputs
    /\ indent = <<>>
    /\ text = <<>>
    /\ maskedTexts = <<>>
    /\ pc = "lines"
    /\ pos = 0
    /\ stack = <<>>
    /\ unmaskType = <<>>
    /\ NoVote
    /\ passes = 0
    /\ result = <<>>
    /\ error = NoError
    /\ aux = <<>>

\* linesToLists(code.split('\n').map(...))
LinesToLists ==
    /\ pc = "lines"
    /\ aux' = linesToLists(lineObjects(input), FALSE)
    /\ pc' = "lists"
    /\ UNCHANGED <<voteVars, input, unmaskType, indent, text, maskedTexts, pos, stack, passes, result, error>>

\* listToTags(...) and the return of listMarkupToTags
ListToTags ==
    /\ pc = "lists"
    /\ result' = listToTags(aux, FALSE)
    /\ pc' = "done"
    /\ UNCHANGED <<voteVars, input, unmaskType, indent, text, maskedTexts, pos, stack, passes, error, aux>>

ListNext ==
    \/ LinesToLists
    \/ ListToTags

SpecList == ListInit /\ [][ListNext]_vars

-----------------------------------------------------------------------------
(* TextMasker: mask calls with and without a type, then unmask(type) *)

\* the types maskSensitiveCode hands to mask
Kinds == {K_block, K_gallery, K_inline, K_template, K_table}

\* texts with tags, templates, tables and placeholder-shaped text
UnmaskInputs == MaskSamples \cup Samples \cup MoreSamples

\* new TextMasker(text) for one of these texts
UnmaskInit ==
    /\ input \in UnmaskInputs
    /\ indent = <<>>
    /\ text = input
    /\ maskedTexts = <<>>
    /\ pc = "mask"
    /\ pos = 0
    /\ stack = <<>>
    /\ unmaskType = <<>>
    /\ NoVote
    /\ passes = 0
    /\ result = <<>>
    /\ error = NoError
    /\ aux = 0

\* masker.mask(generateTagsRegexp(['nowiki'])): no type is given
MaskUntyped ==
    /\ pc = "mask"
    /\ aux < MaxMasks
    /\ MaskCalled(mask(masker, [re |-> "tags", tags |-> {T_nowiki}], <<>>, FALSE))

\* masker.unmask(type) is called with a type
CallUnmaskOf ==
    /\ pc = "mask"
    /\ unmaskType' \in Kinds
    /\ pc' = "unmask"
    /\ UNCHANGED <<voteVars, input, indent, text, maskedTexts, pos, stack, passes, result, error, aux>>

UnmaskNext ==
    \/ MaskNext
    \/ MaskUntyped
    \/ CallUnmaskOf

SpecUnmask == UnmaskInit /\ [][UnmaskNext]_vars

-----------------------------------------------------------------------------
(* processCode on its own, one step of handleIndentedComment at a time *)

MaxReflow == 2

\* what the masked texts handed to processCode are made of
ReflowPieces ==
    <<<<"a">>,
      <<NL>>,
      <<NL, NL>>,
      <<":">>,
      <<"*">>,
      <<" ">>,
      Token(1, K_gallery),
      Token(1, K_table),
      Token(1, K_template)>>

\* masked texts with paragraph gaps next to tags, list lines and tokens
ReflowSamples ==
    {<<"a", NL, NL, "b">>,
     <<"a", NL, NL, NL, "b">>,
     <<"a", NL, NL, ":", "b">>,
     <<"a", NL, NL, NL, ":", "b">>,
     <<"a", NL, NL, "*", "b">>,
     <<"*", "a", NL, NL, "b">>,
     <<"a", NL, NL, "b", NL, NL, "c">>,
     <<"a", NL, "b", NL, NL, "c">>,
     <<"<", "q", ">", "a", NL, "b", "<", "/", "q", ">", NL, NL, "c">>,
     <<"<", "q", ">", "a", "<", "/", "q", ">", NL, NL, "c">>,
     <<"<", "q", ">", NL, "*", "a", NL, "<", "/", "q", ">", NL, NL, "c", NL, NL, NL, "d">>,
     <<"a", NL, NL, "<", "q", ">", "b", NL, "c", "<", "/", "q", ">">>,
     <<"a", NL, NL>> \o Token(1, K_table),
     <<"a", NL, NL>> \o Token(1, K_gallery) \o <<NL, NL, "b">>,
     Token(1, K_template) \o <<NL, NL, "b">>,
     <<"|", "x", "=", NL, NL, "a", "}", "}">>}

\* every text made of at most n of the pieces
RECURSIVE ReflowConcats(_)
ReflowConcats(n) ==
    IF n = 0 THEN {<<>>}
    ELSE ReflowConcats(n - 1)
         \cup {a \o ReflowPieces[k] : a \in ReflowConcats(n - 1), k \in 1..Len(ReflowPieces)}

ReflowInputs == ReflowSamples \cup ReflowConcats(MaxReflow)

\* the two calls of processCode in buildWikitext: in the template handler with
\* no flag set, and on the body with the flags findWrapperFlags computes
CallContext(code, indentation, isInTemplate) ==
    [isInTemplate |-> isInTemplate,
     flags |-> IF isInTemplate THEN NoFlags ELSE findWrapperFlags(code, indentation)]

ReflowInit ==
    /\ input \in ReflowInputs
    /\ indent \in Indents
    /\ \E isInTemplate \in BOOLEAN : aux = CallContext(input, indent, isInTemplate)
    /\ text = input
    /\ maskedTexts = <<>>
    /\ pc = "lists"
    /\ pos = 0
    /\ stack = <<>>
    /\ unmaskType = <<>>
    /\ NoVote
    /\ passes = 0
    /\ result = <<>>
    /\ error = NoError

\* handleIndentedComment returns the code as it is when there is no indentation
NotIndented ==
    /\ pc = "lists"
    /\ indent = <<>>
    /\ pc' = "newlines"
    /\ UNCHANGED <<voteVars, input, unmaskType, indent, text, maskedTexts, pos, stack, passes, result, error, aux>>

\* leading spaces are stripped and list markup becomes tags
ActivateLists ==
    /\ pc = "lists"
    /\ indent # <<>>
    /\ text' = HandleListMarkup(StripLeadingSpaces(text), restLinesIndentation(indent),
                                aux.isInTemplate \/ aux.flags.areThereTagsAroundListMarkup,
                                aux.isInTemplate)
    /\ pc' = "continuation"
    /\ UNCHANGED <<voteVars, input, unmaskType, indent, maskedTexts, pos, stack, passes, result, error, aux>>

\* continuation lines are indented and gallery tokens put on lines of their own
IndentContinuations ==
    /\ pc = "continuation"
    /\ text' = HandleGalleries(HandleContinuation(text, restLinesIndentation(indent)))
    /\ pc' = "checks"
    /\ UNCHANGED <<voteVars, input, unmaskType, indent, maskedTexts, pos, stack, passes, result, error, aux>>

\* one of the two errors is thrown
ThrowError ==
    /\ pc = "checks"
    /\ HandleChecks(text, restLinesIndentation(indent), aux.flags).error # NoError
    /\ error' = HandleChecks(text, restLinesIndentation(indent), aux.flags).error
    /\ pc' = "error"
    /\ UNCHANGED <<voteVars, input, unmaskType, indent, text, maskedTexts, pos, stack, passes, result, aux>>

\* no error is thrown and the line after a list item or a token is indented
IndentAfterListItem ==
    /\ pc = "checks"
    /\ HandleChecks(text, restLinesIndentation(indent), aux.flags).error = NoError
    /\ text' = HandleAfterListItem(text, restLinesIndentation(indent))
    /\ pc' = "paragraphs"
    /\ UNCHANGED <<voteVars, input, unmaskType, indent, maskedTexts, pos, stack, passes, result, error, aux>>

\* the paragraph step, and the return of handleIndentedComment
BreakParagraphs ==
    /\ pc = "paragraphs"
    /\ text' = HandleParagraphs(text, restLinesIndentation(indent), aux.flags)
    /\ pc' = "newlines"
    /\ UNCHANGED <<voteVars, input, unmaskType, indent, maskedTexts, pos, stack, passes, result, error, aux>>

\* processNewlines, and the return of processCode
JoinLines ==
    /\ pc = "newlines"
    /\ result' = processNewlines(text, indent, aux.isInTemplate)
    /\ pc' = "done"
    /\ UNCHANGED <<voteVars, input, unmaskType, indent, text, maskedTexts, pos, stack, passes, error, aux>>

ReflowNext ==
    \/ NotIndented
    \/ ActivateLists
    \/ IndentContinuations
    \/ ThrowError
    \/ IndentAfterListItem
    \/ BreakParagraphs
    \/ JoinLines

SpecReflow == ReflowInit /\ [][ReflowNext]_vars

-----------------------------------------------------------------------------
(* buildWikitext as one call: what it returns or throws *)

\* maskTemplatesRecursively(handler) from the loop state n to its end; n.error is
\* the message of the Error the handler has thrown
RECURSIVE ScanWithHandler(_, _)
SpanHandled(n, indentation, span, r) ==
    IF r.error # NoError THEN [n EXCEPT !.error = r.error]
    ELSE ScanWithHandler(MaskSpan(n, n.stack, span, r.text) @@ [error |-> NoError], indentation)

ScanClose(n, indentation, span) ==
    SpanHandled(n, indentation, span, templateHandler(SpanText(n.text, span), indentation))

ScanWithHandler(n, indentation) ==
    IF ScanPushes(n.text, n.pos)
    THEN ScanWithHandler([n EXCEPT !.pos = ScanLeft(n.text, n.pos) + 2,
                                   !.stack = Append(n.stack, ScanLeft(n.text, n.pos))],
                         indentation)
    ELSE IF n.stack = <<>> THEN n
    ELSE ScanClose(n, indentation, TemplateSpan(n.text, n.pos, n.stack))

\* maskSensitiveCode(handler) on the trimmed text
MaskSensitiveCode(m, indentation) ==
    ScanWithHandler([text |-> m.text, maskedTexts |-> m.maskedTexts, pos |-> 0,
                     stack |-> <<>>, error |-> NoError], indentation)

\* what the loop of masker.unmask() has come to
Unmasked(r, store) ==
    IF ~r.diverged THEN [text |-> r.text, error |-> NoError]
    ELSE IF UnmaskOverflows(r.text, <<>>, store) THEN [text |-> r.text, error |-> "RangeError"]
    ELSE [text |-> r.text, error |-> "diverged"]

\* the end of buildWikitext after processCode has returned or thrown r
IndentAndUnmask(r, indentation, store) ==
    IF r.error # NoError THEN r
    ELSE Unmasked(UnmaskLoop(prependIndentationToLine(
                                 finalIndentation(indentation, r.text \o <<NL>>),
                                 r.text \o <<NL>>),
                             <<>>, store, 0),
                  store)

\* buildWikitext from the second processCode call on
ProcessBody(m, indentation) ==
    IndentAndUnmask(processCode(m.text, indentation, restLinesIndentation(indentation),
                                findWrapperFlags(m.text, indentation), FALSE),
                    indentation, m.maskedTexts)

\* buildWikitext after maskTemplatesRecursively has returned n or its handler has thrown
TablesAndBody(n, indentation) ==
    IF n.error # NoError THEN [text |-> n.text, error |-> n.error]
    ELSE ProcessBody(MaskSensitiveTables([text |-> n.text, maskedTexts |-> n.maskedTexts]),
                     indentation)

\* buildWikitext(text, indent): [text, error]; error is NoError when text is
\* returned, the message of the Error thrown, or "diverged" when the call never ends
buildWikitext(t, indentation) ==
    TablesAndBody(MaskSensitiveCode(MaskSensitiveTags([text |-> Trim(t), maskedTexts |-> <<>>]),
                                    indentation),
                  indentation)

-----------------------------------------------------------------------------
(* Submitting a vote: the dialog's submitVote, vote and voteAPI.  A step   *)
(* is the code that runs between two awaits.                               *)

\* state.pageName of the page whose entries sit one level deeper (the DYK candidates page)
DYK_PAGE == "Wikipedia:DYK/candidates"
OTHER_PAGE == "Wikipedia:FLC"

SIGNATURE == <<"-", "-", "~", "~", "~", "~">>

\* bound: the number of times the user presses the submit button
MaxSubmits == 2

\* String.prototype.includes
Includes(t, lit) == \E p \in 1..(Len(t) + 1) : StartsWithAt(t, p, lit)

ToUpper(c) == IF c \in Range(LOWER) THEN UPPER[CHOOSE k \in 1..Len(LOWER) : LOWER[k] = c] ELSE c

\* s.charAt(0).toUpperCase() + s.slice(1)
UpperFirst(s) == IF s = <<>> THEN s ELSE <<ToUpper(s[1])>> \o Tail(s)

\* title.replace(/x/g, y) for one-character x and y
ReplaceChar(s, x, y) == [k \in 1..Len(s) |-> IF s[k] = x THEN y ELSE s[k]] \o <<>>

titleVariantsOf(title, us, sp) == {title, us, sp, UpperFirst(us), UpperFirst(sp)}

titleVariants(title) == titleVariantsOf(title, ReplaceChar(title, " ", "_"), ReplaceChar(title, "_", " "))

textMatchTitleVariants(t, title) == \E variant \in titleVariants(title) : Includes(t, variant)

Equals(n) == [k \in 1..n |-> "="]

\* sectionText.match(/={n}.+?={n}/g) is not null
HeadingMatch(t, n) ==
    \E p \in 1..Len(t) : \E q \in (p + n + 1)..Len(t) :
        /\ StartsWithAt(t, p, Equals(n))
        /\ StartsWithAt(t, q, Equals(n))
        /\ \A k \in (p + n)..(q - 1) : t[k] # NL

innerHeadings(tracePage, sectionText) ==
    IF tracePage = DYK_PAGE THEN HeadingMatch(sectionText, 5) ELSE HeadingMatch(sectionText, 3)

\* state.sectionTitles.find(x => x.data === id)?.label || `section ${id}`
LabelOf(titles, hits, id) ==
    IF hits # {} /\ titles[Min(hits \cup {Len(titles) + 1})].label # <<>>
    THEN titles[Min(hits)].label
    ELSE <<"s", "e", "c", "t", "i", "o", "n", " ", DIGITS[id + 1]>>

votedPageName(id) ==
    LabelOf(state.sectionTitles, {k \in 1..Len(state.sectionTitles) : state.sectionTitles[k].data = id}, id)

getVoteIndent(useBulleted) ==
    IF state.pageName = DYK_PAGE
    THEN (IF useBulleted THEN <<"*", "*">> ELSE <<"*", ":">>)
    ELSE (IF useBulleted THEN <<"*">> ELSE <<":">>)

\* /--~{3,}/.test(t)
HasSignature(t) == Includes(t, <<"-", "-", "~", "~", "~">>)

Signed(t) == IF HasSignature(t) THEN t ELSE t \o SIGNATURE

buildFinalVoteWikitext(rawText, indentation) == buildWikitext(Signed(Trim(rawText)), indentation)

\* the reduce over selectedEntries: the error of the first entry whose text is not built
FirstError(built) ==
    IF \E k \in 1..Len(built) : built[k].error # NoError
    THEN built[Min({k \in 1..Len(built) : built[k].error # NoError})].error
    ELSE NoError

BuildError(d, indentation) ==
    FirstError([k \in 1..Len(d.selectedEntries) |->
                    buildFinalVoteWikitext(d.voteMessages[d.selectedEntries[k]], indentation)] \o <<>>)

-----------------------------------------------------------------------------
(* the inputs of the vote: the entries of the page, what the user typed,   *)
(* what the API answers                                                    *)

EntryIds == {1, 2}

SectionTitles == <<[data |-> 1, label |-> <<"a", " ", "b">>]>>

VoteMessages ==
    {<<"o", "k">>,
     <<" ", "o", "k", "-", "-", "~", "~", "~", "~">>,
     <<"{", "{">> \o Token(1, <<>>) \o Token(1, <<>>) \o <<"}", "}">>,
     <<"{", "{">> \o Token(1, <<>>) \o <<"}", "}">>}

Selections == {<<1>>, <<2>>, <<1, 2>>, <<2, 1>>}

\* the answer of api.get: whether it holds a revision, and the revision's content
SectionAnswers ==
    {[revision |-> FALSE, content |-> <<>>],
     [revision |-> TRUE, content |-> <<>>],
     [revision |-> TRUE, content |-> <<"A", "_", "b", " ", "s", "e", "c", "t", "i", "o", "n", " ", "2">>],
     [revision |-> TRUE, content |-> <<"A", "-", "b", " ", "S", "e", "c", "t", "i", "o", "n", " ", "2">>],
     [revision |-> TRUE, content |-> <<"=", "=", "=", "a", " ", "b", " ", "s", "e", "c", "t", "i", "o", "n", " ", "2", "=", "=", "=">>],
     [revision |-> TRUE, content |-> <<"a", " ", "b", " ", "s", "e", "c", "t", "i", "o", "n", " ", "2", "=", "=", "=", NL, "=", "=", "=">>],
     [revision |-> TRUE, content |-> <<"a", "_", "b", " ", "s", "e", "c", "t", "i", "o", "n", " ", "2", NL,
                                       "=", "=", "=", "=", "=", "x", "=", "=", "=", "=", "=">>]}

\* state.validVoteTemplates: the names of the templates of a valid vote
ValidVoteTemplates == <<<<"a">>>>

\* getEntryNameById(id) is not empty
Named(titles, id) == \E k \in 1..Len(titles) : titles[k].data = id /\ titles[k].label # <<>>

\* the app whose root component is the dialog under study
DialogApp == 1

\* mountApp has mounted the dialog under study, and no other dialog was opened
OneDialogMounted ==
    /\ mountedApp = DialogApp
    /\ mountElement = [present |-> TRUE, apps |-> {DialogApp}]
    /\ timers = 0
    /\ apps = <<"open">>

VoteInit ==
    /\ input = <<>>
    /\ indent = <<>>
    /\ text = <<>>
    /\ maskedTexts = <<>>
    /\ pc = "dialog"
    /\ pos = 0
    /\ stack = <<>>
    /\ unmaskType = <<>>
    /\ passes = 0
    /\ result = <<>>
    /\ error = NoError
    /\ aux = 0                       \* the number of times submit was pressed
    /\ state \in [pageName : {DYK_PAGE, OTHER_PAGE}, sectionTitles : {SectionTitles},
                   validVoteTemplates : {ValidVoteTemplates}]
    /\ \E sel \in Selections, useBulleted \in BOOLEAN :
         \E msgs \in [EntryIds -> VoteMessages \cup {<<>>}] :
           /\ \A id \in EntryIds : (msgs[id] = <<>>) <=> (id \notin Range(sel))
           /\ dialog = [open |-> TRUE, isSubmitting |-> FALSE, currentStep |-> 2, totalSteps |-> 3,
                        selectedEntries |-> sel,
                        entryInfoHtml |-> SelectSeq(sel, LAMBDA id : Named(SectionTitles, id)),
                        entryInfoById |-> Range(sel), isLoadingInfo |-> FALSE,
                        voteMessages |-> msgs, useBulleted |-> useBulleted]
           /\ voteMessageCache = [id \in EntryIds |->
                                     IF Named(SectionTitles, id) /\ id \in Range(sel) THEN <<msgs[id]>> ELSE <<>>]
    /\ entryInfoPromiseCache = [id \in EntryIds |-> IF Named(SectionTitles, id) THEN "resolved" ELSE "none"]
    /\ loads = <<>>
    /\ OneDialogMounted
    /\ voting = NoCall
    /\ edits = <<>>
    /\ notices = <<>>

formatterVars == <<input, indent, text, maskedTexts, pos, stack, unmaskType, passes, result>>

\* onPrimaryAction at the last step: validateStep1 passed, submitVote runs
\* the primary button of the dialog: at the last step it is disabled while a
\* submission runs
primaryActionNeverDisabled(d) == [disabled |-> FALSE]
primaryAction(d) == [disabled |-> d.currentStep >= d.totalSteps - 1 /\ d.isSubmitting]

\* the user can act on the dialog: it is shown, and no call keeps the thread
UserCanAct == dialog.open /\ pc # "diverged"

\* the primary button can be pressed and onPrimaryAction goes on to submitVote
CanSubmit ==
    /\ UserCanAct
    /\ aux < MaxSubmits
    /\ ~primaryAction(dialog).disabled
    /\ dialog.currentStep >= dialog.totalSteps - 1

\* voteAPI up to its first await: the call is counted, the user is told, api.get is sent
CallVoteAPI(ids, k, calls) ==
    /\ voting' = [voteIDs |-> ids, k |-> k, calls |-> calls + 1, res |-> <<>>, returned |-> "pending",
                  refresh |-> voting.refresh]
    /\ pc' = "get"

Returned(v, value) == [v EXCEPT !.returned = value]

\* the answer of api.get reaches the running voteAPI
Answered(v, res) == [v EXCEPT !.res = <<res>>]

\* submitVote: a text is not built, the catch block runs
SubmitVoteCaughtStillSubmitting ==
    /\ CanSubmit
    /\ \E e \in {BuildError(dialog, getVoteIndent(dialog.useBulleted))} :
         /\ e \notin {NoError, "diverged"}
         /\ error' = e
    /\ aux' = aux + 1
    /\ dialog' = [dialog EXCEPT !.isSubmitting = TRUE]
    /\ notices' = Append(notices, "submitFailed")
    /\ UNCHANGED <<formatterVars, pageVars, pc, state, voting, edits>>
SubmitVoteCaught ==
    /\ CanSubmit
    /\ \E e \in {BuildError(dialog, getVoteIndent(dialog.useBulleted))} :
         /\ e \notin {NoError, "diverged"}
         /\ error' = e
    /\ aux' = aux + 1
    /\ dialog' = [dialog EXCEPT !.isSubmitting = FALSE]
    /\ notices' = Append(notices, "submitFailed")
    /\ UNCHANGED <<formatterVars, pageVars, pc, state, voting, edits>>

\* submitVote: a text is never built (the unmask loop does not end)
SubmitVoteHangs ==
    /\ CanSubmit
    /\ BuildError(dialog, getVoteIndent(dialog.useBulleted)) = "diverged"
    /\ aux' = aux + 1
    /\ dialog' = [dialog EXCEPT !.isSubmitting = TRUE]
    /\ pc' = "diverged"
    /\ UNCHANGED <<formatterVars, pageVars, error, state, voting, edits, notices>>

\* submitVote: every text is built, vote is called and reaches the first voteAPI
SubmitVoteCallsVote ==
    /\ CanSubmit
    /\ BuildError(dialog, getVoteIndent(dialog.useBulleted)) = NoError
    /\ aux' = aux + 1
    /\ dialog' = [dialog EXCEPT !.isSubmitting = TRUE]
    /\ CallVoteAPI(dialog.selectedEntries, 1, voting.calls)
    /\ notices' = Append(notices, "casting")
    /\ UNCHANGED <<formatterVars, pageVars, error, state, edits>>

\* api.get rejects: voteAPI and vote throw, submitVote's catch block runs
GetRejects ==
    /\ pc = "get"
    /\ pc' = "dialog"
    /\ voting' = Returned(voting, "thrown")
    /\ dialog' = [dialog EXCEPT !.isSubmitting = FALSE]
    /\ notices' = Append(notices, "submitFailed")
    /\ UNCHANGED <<formatterVars, pageVars, error, aux, state, edits>>

\* voteAPI returns true, vote returns true, submitVote returns
ConflictReturnRefreshes(res, notice) ==
    /\ pc' = "dialog"
    /\ voting' = [Returned(Answered(voting, res), "true") EXCEPT !.refresh = @ + 1]
    /\ dialog' = [dialog EXCEPT !.isSubmitting = FALSE]
    /\ notices' = Append(notices, notice)
    /\ UNCHANGED <<formatterVars, pageVars, error, aux, state, edits>>
ConflictReturn(res, notice) ==
    /\ pc' = "dialog"
    /\ voting' = Returned(Answered(voting, res), "true")
    /\ dialog' = [dialog EXCEPT !.isSubmitting = FALSE]
    /\ notices' = Append(notices, notice)
    /\ UNCHANGED <<formatterVars, pageVars, error, aux, state, edits>>

\* api.get answers without content
NoSectionText(res) ==
    /\ pc = "get"
    /\ ~res.revision \/ res.content = <<>>
    /\ ConflictReturn(res, "noSectionText")

\* api.get answers with a text that does not name the entry
NoTitleVariant(res) ==
    /\ pc = "get"
    /\ res.revision /\ res.content # <<>>
    /\ ~textMatchTitleVariants(res.content, votedPageName(voting.voteIDs[voting.k]))
    /\ ConflictReturn(res, "notFound")

\* the section and the text parameter of the edit; call tells which voteAPI call posts it
editParamsAlwaysAppend(call, sectionID, inner) ==
    [call |-> call, section |-> IF inner THEN sectionID + 1 ELSE sectionID, param |-> "appendtext"]
editParams(call, sectionID, inner) ==
    [call |-> call, section |-> IF inner THEN sectionID + 1 ELSE sectionID,
     param |-> IF inner THEN "prependtext" ELSE "appendtext"]

\* api.get answers with the entry's section: the edit is posted
PostEdit(res) ==
    /\ pc = "get"
    /\ res.revision /\ res.content # <<>>
    /\ textMatchTitleVariants(res.content, votedPageName(voting.voteIDs[voting.k]))
    /\ edits' = Append(edits, editParams(voting.calls, voting.voteIDs[voting.k],
                                          innerHeadings(state.pageName, res.content)))
    /\ voting' = Answered(voting, res)
    /\ pc' = "post"
    /\ UNCHANGED <<formatterVars, pageVars, error, aux, state, dialog, notices>>

\* api.post rejects: voteAPI and vote throw, submitVote's catch block runs
PostRejects ==
    /\ pc = "post"
    /\ pc' = "dialog"
    /\ voting' = Returned(voting, "thrown")
    /\ dialog' = [dialog EXCEPT !.isSubmitting = FALSE]
    /\ notices' = Append(notices, "submitFailed")
    /\ UNCHANGED <<formatterVars, pageVars, error, aux, state, edits>>

\* api.post resolves, voteAPI returns false, vote goes on to its next id
VoteNextEntry ==
    /\ pc = "post"
    /\ voting.k < Len(voting.voteIDs)
    /\ CallVoteAPI(voting.voteIDs, voting.k + 1, voting.calls)
    /\ notices' = notices \o <<"voted", "casting">>
    /\ UNCHANGED <<formatterVars, pageVars, error, aux, state, dialog, edits>>

\* api.post resolves for the last id: vote sets the timer of refreshPage and
\* returns false, submitVote closes the dialog
VoteDone ==
    /\ pc = "post"
    /\ voting.k = Len(voting.voteIDs)
    /\ pc' = "closed"
    /\ voting' = [Returned(voting, "false") EXCEPT !.refresh = @ + 1]
    /\ dialog' = [dialog EXCEPT !.isSubmitting = FALSE, !.open = FALSE]
    /\ notices' = notices \o <<"voted", "submitted">>
    /\ apps' = [apps EXCEPT ![DialogApp] = "closed"]
    /\ timers' = timers + 1
    /\ UNCHANGED <<formatterVars, error, aux, state, edits>>
    /\ UNCHANGED <<voteMessageCache, entryInfoPromiseCache, loads, mountedApp, mountElement>>

\* dialog.ts removeDialogMount: the element is removed, the references are cleared
removeDialogMount ==
    /\ mountElement' = NoMount
    /\ mountedApp' = 0

\* a timer of 300 ms runs out: removeDialogMount()
RemoveLater ==
    /\ timers > 0
    /\ timers' = timers - 1
    /\ removeDialogMount
    /\ UNCHANGED <<formatterVars, pc, error, aux, state, dialog, voting, edits, notices>>
    /\ UNCHANGED <<voteMessageCache, entryInfoPromiseCache, loads, apps>>

VoteNext ==
    \/ SubmitVoteCaught
    \/ SubmitVoteHangs
    \/ SubmitVoteCallsVote
    \/ GetRejects
    \/ \E res \in SectionAnswers : NoSectionText(res)
    \/ \E res \in SectionAnswers : NoTitleVariant(res)
    \/ \E res \in SectionAnswers : PostEdit(res)
    \/ PostRejects
    \/ VoteNextEntry
    \/ VoteDone
    \/ RemoveLater

SpecVote == VoteInit /\ [][VoteNext]_vars
-----------------------------------------------------------------------------
(* The steps of the vote dialog: entries (0), messages (1), preview (2)    *)

OK_MESSAGE == <<"o", "k">>

\* what the user leaves in the textarea of an entry: nothing, a vote, a text
\* on which buildWikitext throws
DialogMessages ==
    {<<>>, OK_MESSAGE, <<"{", "{">> \o Token(1, <<>>) \o Token(1, <<>>) \o <<"}", "}">>}

\* getDefaultVoteMessage; "." stands for the ideographic full stop
getDefaultVoteMessage ==
    IF state.validVoteTemplates = <<>> THEN <<>>
    ELSE <<"{", "{">> \o state.validVoteTemplates[1] \o <<"}", "}", ".">>

\* getCachedVoteMessageById(id) ?? def
CachedOr(cache, id, def) ==
    IF Named(state.sectionTitles, id) /\ cache[id] # <<>> THEN cache[id][1] ELSE def

\* setCachedVoteMessageById for every id of sel, with the message it has in msgs
CachedAll(cache, sel, msgs) ==
    [id \in EntryIds |-> IF id \in Range(sel) /\ Named(state.sectionTitles, id) THEN <<msgs[id]>> ELSE cache[id]]

\* syncVoteMessages: the messages of the new selection; an entry that was
\* selected before keeps its message, a new one gets the cached or the default one
syncVoteMessages(old, new, msgs, cache) ==
    [id \in EntryIds |->
        IF id \notin Range(new) THEN <<>>
        ELSE IF id \in Range(old) THEN msgs[id]
        ELSE CachedOr(cache, id, getDefaultVoteMessage)]

\* the promise of getCachedEntryInfo(id) is resolved, or the entry has no name
\* and its info is "" at once
InfoReady(cache, id) == ~Named(state.sectionTitles, id) \/ cache[id] = "resolved"

\* getCachedEntryInfo for every entry of sel: a request is sent for the named
\* entries that have no promise in the cache
Requested(cache, sel) ==
    [id \in EntryIds |->
        IF id \in Range(sel) /\ Named(state.sectionTitles, id) /\ cache[id] = "none" THEN "pending" ELSE cache[id]]

\* loadEntryInfo after Promise.all: the info of the ids of the call replaces
\* entryInfoById, entryInfoHtml is built from the entries selected now
Settled(d, ids) ==
    [d EXCEPT !.entryInfoById = Range(ids),
              !.entryInfoHtml = SelectSeq(d.selectedEntries,
                                          LAMBDA id : id \in Range(ids) /\ Named(state.sectionTitles, id)),
              !.isLoadingInfo = FALSE]

\* the calls of ls that wait for nothing more settle, in the order they were made
RECURSIVE SettleAll(_, _, _)
SettleAll(d, ls, cache) ==
    IF ls = <<>> THEN d
    ELSE SettleAll(IF \A id \in Range(Head(ls)) : InfoReady(cache, id) THEN Settled(d, Head(ls)) ELSE d,
                   Tail(ls), cache)

StillWaiting(ls, cache) == SelectSeq(ls, LAMBDA ids : \E id \in Range(ids) : ~InfoReady(cache, id))

\* loadEntryInfo() with the dialog data d, where d.selectedEntries is the new
\* selection: up to its await, and beyond it when every promise is resolved
loadEntryInfo(d) ==
    IF d.selectedEntries = <<>>
    THEN /\ dialog' = [d EXCEPT !.entryInfoHtml = <<>>, !.entryInfoById = {}]
         /\ UNCHANGED <<entryInfoPromiseCache, loads>>
    ELSE /\ entryInfoPromiseCache' = Requested(entryInfoPromiseCache, d.selectedEntries)
         /\ IF \A id \in Range(d.selectedEntries) : InfoReady(entryInfoPromiseCache, id)
            THEN /\ dialog' = Settled(d, d.selectedEntries)
                 /\ UNCHANGED loads
            ELSE /\ dialog' = [d EXCEPT !.isLoadingInfo = TRUE]
                 /\ loads' = Append(SelectSeq(loads, LAMBDA ids : ids # d.selectedEntries), d.selectedEntries)

\* the selection after the checkbox of id is clicked
Toggled(sel, id) == IF id \in Range(sel) THEN SelectSeq(sel, LAMBDA i : i # id) ELSE Append(sel, id)

\* a checkbox of step 0 is clicked; the watcher of selectedEntries runs
\* syncVoteMessages and loadEntryInfo
ToggleEntry(id) ==
    /\ UserCanAct
    /\ dialog.currentStep = 0
    /\ \E new \in {Toggled(dialog.selectedEntries, id)} :
         \E msgs \in {syncVoteMessages(dialog.selectedEntries, new, dialog.voteMessages, voteMessageCache)} :
           /\ voteMessageCache' = CachedAll(voteMessageCache, new, msgs)
           /\ loadEntryInfo([dialog EXCEPT !.selectedEntries = new, !.voteMessages = msgs])
    /\ UNCHANGED <<formatterVars, pc, error, aux, state, voting, edits, notices>>
    /\ UNCHANGED <<mountedApp, mountElement, timers, apps>>

\* the response of XTools for the entry id is there: getXToolsInfo resolves,
\* and with it every loadEntryInfo call that waits for nothing else
InfoResolves(id) ==
    /\ pc # "diverged"
    /\ entryInfoPromiseCache[id] = "pending"
    /\ entryInfoPromiseCache' = [entryInfoPromiseCache EXCEPT ![id] = "resolved"]
    /\ dialog' = SettleAll(dialog, loads, entryInfoPromiseCache')
    /\ loads' = StillWaiting(loads, entryInfoPromiseCache')
    /\ UNCHANGED <<formatterVars, pc, error, aux, state, voting, edits, notices>>
    /\ UNCHANGED <<voteMessageCache, mountedApp, mountElement, timers, apps>>

\* the user changes the text of the entry id at step 1
EditMessage(id, m) ==
    /\ UserCanAct
    /\ dialog.currentStep = 1
    /\ id \in Range(dialog.selectedEntries)
    /\ m # dialog.voteMessages[id]
    /\ dialog' = [dialog EXCEPT !.voteMessages[id] = m]
    /\ UNCHANGED <<formatterVars, pageVars, pc, error, aux, state, voting, edits, notices>>

validateStep0(d) == d.selectedEntries # <<>>

validateStep1Unchecked(d) == TRUE
validateStep1(d) == \A k \in 1..Len(d.selectedEntries) : Trim(d.voteMessages[d.selectedEntries[k]]) # <<>>

\* onPrimaryAction at step 0: validateStep0 decides
PrimaryAtStep0 ==
    /\ UserCanAct
    /\ dialog.currentStep = 0
    /\ dialog' = IF validateStep0(dialog) THEN [dialog EXCEPT !.currentStep = @ + 1] ELSE dialog
    /\ UNCHANGED <<formatterVars, pageVars, pc, error, aux, state, voting, edits, notices>>

\* onPrimaryAction at step 1: validateStep1 reads the textareas, caches their
\* texts and decides
PrimaryAtStep1 ==
    /\ UserCanAct
    /\ dialog.currentStep = 1
    /\ voteMessageCache' = CachedAll(voteMessageCache, dialog.selectedEntries, dialog.voteMessages)
    /\ dialog' = IF validateStep1(dialog) THEN [dialog EXCEPT !.currentStep = @ + 1] ELSE dialog
    /\ UNCHANGED <<formatterVars, pc, error, aux, state, voting, edits, notices>>
    /\ UNCHANGED <<entryInfoPromiseCache, loads, mountedApp, mountElement, timers, apps>>

\* closeDialog: the dialog is hidden and the removal of its mount is set for later
closeDialog ==
    /\ dialog' = [dialog EXCEPT !.open = FALSE]
    /\ apps' = [apps EXCEPT ![DialogApp] = "closed"]
    /\ timers' = timers + 1
    /\ UNCHANGED <<formatterVars, pc, error, aux, state, voting, edits, notices>>
    /\ UNCHANGED <<voteMessageCache, entryInfoPromiseCache, loads, mountedApp, mountElement>>

\* onDefaultAction after the first step: one step back
DefaultBack ==
    /\ UserCanAct
    /\ dialog.currentStep > 0
    /\ dialog' = [dialog EXCEPT !.currentStep = @ - 1]
    /\ UNCHANGED <<formatterVars, pageVars, pc, error, aux, state, voting, edits, notices>>

\* onDefaultAction at the first step: closeDialog
DefaultCancel ==
    /\ UserCanAct
    /\ dialog.currentStep = 0
    /\ closeDialog

\* onUpdateOpen(false): the dialog's close button or the Escape key
UpdateOpen ==
    /\ UserCanAct
    /\ closeDialog

\* data() for the section the user clicked, and the first run of the watcher
\* of selectedEntries; the info of every named entry is in the promise cache
DialogInit ==
    /\ input = <<>>
    /\ indent = <<>>
    /\ text = <<>>
    /\ maskedTexts = <<>>
    /\ pc = "dialog"
    /\ pos = 0
    /\ stack = <<>>
    /\ unmaskType = <<>>
    /\ passes = 0
    /\ result = <<>>
    /\ error = NoError
    /\ aux = 0                       \* the number of times submitVote was started
    /\ state \in [pageName : {DYK_PAGE}, sectionTitles : {SectionTitles},
                   validVoteTemplates : {<<>>}]
    /\ \E sectionID \in EntryIds :
         /\ dialog = [open |-> TRUE, isSubmitting |-> FALSE, currentStep |-> 0, totalSteps |-> 3,
                      selectedEntries |-> <<sectionID>>,
                      entryInfoHtml |-> SelectSeq(<<sectionID>>, LAMBDA id : Named(SectionTitles, id)),
                      entryInfoById |-> {sectionID}, isLoadingInfo |-> FALSE,
                      voteMessages |-> [id \in EntryIds |-> IF id = sectionID THEN getDefaultVoteMessage ELSE <<>>],
                      useBulleted |-> TRUE]
         /\ voteMessageCache = [id \in EntryIds |->
                                   IF id = sectionID /\ Named(SectionTitles, id) THEN <<getDefaultVoteMessage>> ELSE <<>>]
    /\ entryInfoPromiseCache = [id \in EntryIds |-> IF Named(SectionTitles, id) THEN "resolved" ELSE "none"]
    /\ loads = <<>>
    /\ OneDialogMounted
    /\ voting = NoCall
    /\ edits = <<>>
    /\ notices = <<>>

\* the answers of api.get while the dialog is studied: no content, the text of
\* another entry, the entry's section with an inner heading
DialogAnswers ==
    {[revision |-> TRUE, content |-> <<>>],
     [revision |-> TRUE, content |-> <<"x">>],
     [revision |-> TRUE, content |-> <<"a", "_", "b", " ", "s", "e", "c", "t", "i", "o", "n", " ", "2", NL,
                                       "=", "=", "=", "=", "=", "x", "=", "=", "=", "=", "=">>]}

DialogNext ==
    \/ \E id \in EntryIds : ToggleEntry(id)
    \/ \E id \in EntryIds, m \in DialogMessages : EditMessage(id, m)
    \/ PrimaryAtStep0
    \/ PrimaryAtStep1
    \/ DefaultBack
    \/ DefaultCancel
    \/ UpdateOpen
    \/ SubmitVoteCaught
    \/ SubmitVoteCallsVote
    \/ GetRejects
    \/ \E res \in DialogAnswers : NoSectionText(res)
    \/ \E res \in DialogAnswers : NoTitleVariant(res)
    \/ \E res \in DialogAnswers : PostEdit(res)
    \/ PostRejects
    \/ VoteNextEntry
    \/ VoteDone
    \/ RemoveLater

SpecDialog == DialogInit /\ [][DialogNext]_vars

-----------------------------------------------------------------------------
(* The info of the entries, loaded while the user selects at step 0 *)

\* a page with two entries that have a name
LoadTitles == <<[data |-> 1, label |-> <<"a", " ", "b">>], [data |-> 2, label |-> <<"c">>]>>

\* data() for the section the user clicked and the first run of the watcher of
\* selectedEntries: loadEntryInfo is at its await unless the info of the entry
\* was asked for and received before
LoadInit ==
    /\ input = <<>>
    /\ indent = <<>>
    /\ text = <<>>
    /\ maskedTexts = <<>>
    /\ pc = "dialog"
    /\ pos = 0
    /\ stack = <<>>
    /\ unmaskType = <<>>
    /\ passes = 0
    /\ result = <<>>
    /\ error = NoError
    /\ aux = 0
    /\ state = [pageName |-> DYK_PAGE, sectionTitles |-> LoadTitles, validVoteTemplates |-> ValidVoteTemplates]
    /\ \E sectionID \in EntryIds, before \in [EntryIds -> {"none", "resolved"}] :
         /\ entryInfoPromiseCache = Requested(before, <<sectionID>>)
         /\ loads = IF before[sectionID] = "resolved" THEN <<>> ELSE <<<<sectionID>>>>
         /\ dialog = [open |-> TRUE, isSubmitting |-> FALSE, currentStep |-> 0, totalSteps |-> 3,
                      selectedEntries |-> <<sectionID>>,
                      entryInfoHtml |-> IF before[sectionID] = "resolved" THEN <<sectionID>> ELSE <<>>,
                      entryInfoById |-> IF before[sectionID] = "resolved" THEN {sectionID} ELSE {},
                      isLoadingInfo |-> before[sectionID] # "resolved",
                      voteMessages |-> [id \in EntryIds |-> IF id = sectionID THEN getDefaultVoteMessage ELSE <<>>],
                      useBulleted |-> TRUE]
         /\ voteMessageCache = [id \in EntryIds |-> IF id = sectionID THEN <<getDefaultVoteMessage>> ELSE <<>>]
    /\ OneDialogMounted
    /\ voting = NoCall
    /\ edits = <<>>
    /\ notices = <<>>

LoadNext ==
    \/ \E id \in EntryIds : ToggleEntry(id)
    \/ \E id \in EntryIds : InfoResolves(id)

SpecLoad == LoadInit /\ [][LoadNext]_vars

-----------------------------------------------------------------------------
(* The mount of the dialogs: openVoteDialog, the load of the components,   *)
(* the closing of a dialog and the removal of its mount 300 ms later       *)

MaxDialogs == 3

\* the dialog apps that wait for loadCodexAndVue
Loading == {a \in 1..Len(apps) : apps[a] = "loading"}

\* openVoteDialog(sectionID): a mounted app is removed with its mount, then
\* createVoteDialog asks for the components; the app is made when they are there
OpenVoteDialog ==
    /\ pc = "page"
    /\ Len(apps) < MaxDialogs
    /\ IF mountedApp # 0
       THEN /\ removeDialogMount
            /\ apps' = Append([a \in 1..Len(apps) |->
                                  IF a \in mountElement.apps /\ apps[a] = "open" THEN "replaced" ELSE apps[a]],
                              "loading")
       ELSE /\ apps' = Append(apps, "loading")
            /\ UNCHANGED <<mountedApp, mountElement>>
    /\ UNCHANGED <<formatterVars, pc, error, aux, state, dialog, voting, edits, notices>>
    /\ UNCHANGED <<voteMessageCache, entryInfoPromiseCache, loads, timers>>

\* mountApp(app): the mount is made unless it is there, the app is stored and mounted on it
mountApp(a) ==
    /\ mountElement' = [present |-> TRUE, apps |-> mountElement.apps \cup {a}]
    /\ mountedApp' = a

\* loadCodexAndVue resolves for the dialog that has waited longest: the app is
\* created with open = true and mounted
ComponentsLoaded ==
    /\ pc = "page"
    /\ Loading # {}
    /\ mountApp(Min(Loading))
    /\ apps' = [apps EXCEPT ![Min(Loading)] = "open"]
    /\ UNCHANGED <<formatterVars, pc, error, aux, state, dialog, voting, edits, notices>>
    /\ UNCHANGED <<voteMessageCache, entryInfoPromiseCache, loads, timers>>

\* loadCodexAndVue rejects: the catch block tells the user, no app is made
ComponentsFail ==
    /\ pc = "page"
    /\ Loading # {}
    /\ apps' = [apps EXCEPT ![Min(Loading)] = "failed"]
    /\ UNCHANGED <<formatterVars, pc, error, aux, state, dialog, voting, edits, notices>>
    /\ UNCHANGED <<voteMessageCache, entryInfoPromiseCache, loads, mountedApp, mountElement, timers>>

\* the dialog a sets open = false and sets the timer of removeDialogMount
Closes(a) ==
    /\ pc = "page"
    /\ apps[a] = "open"
    /\ apps' = [apps EXCEPT ![a] = "closed"]
    /\ timers' = timers + 1
    /\ UNCHANGED <<formatterVars, pc, error, aux, state, dialog, voting, edits, notices>>
    /\ UNCHANGED <<voteMessageCache, entryInfoPromiseCache, loads, mountedApp, mountElement>>

\* closeDialog of the dialog a
DialogClosed(a) == Closes(a)

\* submitVote of the dialog a ends without a conflict
DialogSubmitted(a) == Closes(a)

MountInit ==
    /\ input = <<>>
    /\ indent = <<>>
    /\ text = <<>>
    /\ maskedTexts = <<>>
    /\ pc = "page"
    /\ pos = 0
    /\ stack = <<>>
    /\ unmaskType = <<>>
    /\ passes = 0
    /\ result = <<>>
    /\ error = NoError
    /\ aux = 0
    /\ NoVote

MountNext ==
    \/ OpenVoteDialog
    \/ ComponentsLoaded
    \/ ComponentsFail
    \/ \E a \in 1..MaxDialogs : a <= Len(apps) /\ DialogClosed(a)
    \/ \E a \in 1..MaxDialogs : a <= Len(apps) /\ DialogSubmitted(a)
    \/ RemoveLater

SpecMount == MountInit /\ [][MountNext]_vars

-----------------------------------------------------------------------------
(* Properties *)

HELLO == <<"h", "e", "l", "l", "o">>
NESTED5 == <<"{", "{", "a", "{", "{", "b", "{", "{", "c", "{", "{", "d", "{", "{", "e", "}", "}", "}", "}", "}", "}", "}", "}", "}", "}">>
A_GALLERY_B == <<"a", "\n", "<", "g", "a", "l", "l", "e", "r", "y", ">", "x", "<", "/", "g", "a", "l", "l", "e", "r", "y", ">", "\n", "b">>

\* s is a substring of t
Occurs(s, t) == \E p \in 1..(Len(t) - Len(s) + 1) : StartsWithAt(t, p, s)

\* every placeholder-shaped substring of s whose number is above n is in t
TokensKept(s, n, t) ==
    \A p \in 1..Len(s) :
        (MASK_ANY_REGEXP(s, p) > 0 /\ TextToNum(TokenDigits(s, p)) > n)
            => Occurs(SubSeq(s, p, MASK_ANY_REGEXP(s, p) - 1), t)

\* /<<VOTER_MASK_\d+_gallery_VOTER>>/.test(t)
HasGalleryToken(t) == \E p \in 1..Len(t) : GalleryTokenEnd(t, p) > 0

\* the first line of t is a gallery token
GalleryFirstLine(t) == EndsLine(t, GalleryTokenEnd(t, 1))

\* the texts of the line nodes of a list tree, in order
RECURSIVE Leaves(_)
Leaves(nodes) ==
    IF nodes = <<>> THEN <<>>
    ELSE (IF isListLineNode(Head(nodes)) THEN <<Head(nodes).text>> ELSE Leaves(Head(nodes).items))
         \o Leaves(Tail(nodes))

\* leaf is line without some of its leading list-prefix characters
StripsPrefix(leaf, line) ==
    \E j \in 0..Len(line) : /\ \A k \in 1..j : IsListChar(line[k])
                            /\ leaf = SubSeq(line, j + 1, Len(line))

LeavesAreLines(leaves, lines) ==
    /\ Len(leaves) = Len(lines)
    /\ \A k \in 1..Len(lines) : StripsPrefix(leaves[k], lines[k])

\* no list-prefixed line, no tag, no template, no run of blank lines
PlainText(t) ==
    /\ ~HasListLine(t)
    /\ "<" \notin Range(t)
    /\ ~Occurs(OPEN, t)
    /\ ~Occurs(<<NL, NL>>, t)

BLANKS == {" ", NL}

\* s is t without the blanks at its two ends
IsTrimOf(s, t) ==
    /\ s = <<>> \/ (s[1] \notin BLANKS /\ s[Len(s)] \notin BLANKS)
    /\ \E i \in 0..(Len(t) - Len(s)) :
           /\ SubSeq(t, i + 1, i + Len(s)) = s
           /\ \A k \in (1..i) \cup ((i + Len(s) + 1)..Len(t)) : t[k] \in BLANKS

\* r is the text t trimmed and followed by one newline
TrimmedLine(r, t) ==
    /\ r # <<>>
    /\ r[Len(r)] = NL
    /\ IsTrimOf(SubSeq(r, 1, Len(r) - 1), t)

\* C1: for a text without placeholder-shaped text, whatever mask calls are made
\* (tags, templates nested to any depth the texts hold, tables), unmask() ends
\* and gives back exactly the original text, which holds no token.
C1_RoundTrip ==
    ~HasToken(input) =>
        /\ pc # "diverged"
        /\ pc = "done" => (result = input /\ ~HasToken(result))

\* templates nested five deep have been masked and unmasked again
C1_Witness ==
    /\ pc = "done"
    /\ input = NESTED5
    /\ Len(maskedTexts) = 5
    /\ passes = 5
    /\ aux = MaxMasks
    /\ result = input

\* C2: the line nodes of the tree linesToLists returns, read in order, are the
\* input lines, each without leading list-prefix characters: as many leaves as
\* lines, none dropped, none duplicated.
C2_EveryLineOnce ==
    pc \in {"lists", "done"} => LeavesAreLines(Leaves(aux), SplitLines(input))

\* C3: buildWikitext terminates: the final unmask loop is never in a run of
\* turns without end.
C3_Terminates == pc # "diverged"

\* C4: when buildWikitext returns, every placeholder-shaped substring of the
\* input text is in the returned text.
C4_UserTokensKept == pc = "done" => TokensKept(input, 0, result)

\* C5: after unmask(), every token of the original text whose number has no
\* entry in the store is still in the text, and nothing was thrown.
C5_FailsSafe ==
    pc = "done" => (error = NoError /\ TokensKept(input, Len(maskedTexts), result))

\* C6: whenever the rest-indentation holds "#" and the body handed to
\* processCode holds a masked table, buildWikitext throws numberedList-table.
C6_TableRejected ==
    [][(/\ pc = "process"
        /\ "#" \in Range(restLinesIndentation(indent))
        /\ HasTableToken(text))
       => (pc' = "error" /\ error' = "numberedList-table")]_vars

C8_OnlyTwoErrors ==
    /\ error \in {NoError, "numberedList-table", "numberedList"}
    /\ indent = <<>> => error = NoError
    /\ pc # "diverged"

C10_IndentedOnce ==
    [][/\ pc = "indent" =>
           \E chosen \in {indent, restLinesIndentation(indent)} :
               text' = chosen
                       \o (IF indent # <<>> /\ ~(text # <<>> /\ IsListChar(text[1]))
                           THEN <<" ">> ELSE <<>>)
                       \o text
       /\ (pc' = "done" /\ input = HELLO /\ indent = <<"*">>)
              => StartsWithAt(result', 1, <<"*", " ">> \o HELLO)]_vars

\* buildWikitext('hello', '*') has returned
C10_Witness ==
    /\ pc = "done"
    /\ input = HELLO
    /\ indent = <<"*">>
    /\ result = <<"*", " ">> \o HELLO \o <<NL>>


\* C11 as stated: with a non-empty marker, a block that starts with any of
\* : ; * # is prefixed with the rest-indentation.
C11_RestForListPrefix ==
    [][(pc = "indent" /\ indent # <<>> /\ text # <<>> /\ IsListChar(text[1]))
           => text' = restLinesIndentation(indent) \o text]_vars

\* C11: with a non-empty marker, a block that starts with * # or ; is prefixed
\* with the rest-indentation (the marker with every * replaced by :), and a
\* block that starts with : is prefixed with the marker itself.
C11_RestForListStart ==
    [][(pc = "indent" /\ indent # <<>> /\ text # <<>>) =>
           /\ text[1] \in {"*", "#", ";"} => text' = restLinesIndentation(indent) \o text
           /\ text[1] = ":" => text' = indent \o text]_vars

\* buildWikitext('*a', '*') has returned the block behind the rest-indentation
C11_Witness ==
    /\ pc = "done"
    /\ input = <<"*", "a">>
    /\ indent = <<"*">>
    /\ result = <<":", "*", "a", NL>>

A_GAP_B == <<"a", NL, NL, "b">>
Q_GAP_C == <<"<", "q", ">", "a", NL, "b", "<", "/", "q", ">", NL, NL, "c">>

\* how many times s occurs in t
Count(s, t) == Cardinality({p \in 1..(Len(t) - Len(s) + 1) : StartsWithAt(t, p, s)})

\* how many of the newlines of the run of n newlines followed by the character c
\* form a paragraph boundary: the whole run, one fewer before ":", none when fewer than two
GapLength(n, c) ==
    IF c = <<":">> THEN (IF n >= 3 THEN n - 1 ELSE 0)
    ELSE (IF n >= 2 THEN n ELSE 0)

\* the character of t at e, nothing at the end of t
CharAt(t, e) == IF e <= Len(t) THEN <<t[e]>> ELSE <<>>

\* the text t from p on, every paragraph boundary replaced by brk
RECURSIVE WithBoundaries(_, _, _)
BoundaryOf(t, p, e, gap, brk) ==
    IF gap > 0
    THEN brk \o WithBoundaries(t, p + gap, brk)
    ELSE SubSeq(t, p, e - 1) \o WithBoundaries(t, e, brk)

BoundaryAt(t, p, e, brk) == BoundaryOf(t, p, e, GapLength(e - p, CharAt(t, e)), brk)

WithBoundaries(t, p, brk) ==
    IF p > Len(t) THEN <<>>
    ELSE IF t[p] = NL /\ (p = 1 \/ t[p - 1] # NL) THEN BoundaryAt(t, p, RunEnd(t, p, {NL}), brk)
    ELSE <<t[p]>> \o WithBoundaries(t, p + 1, brk)

\* the text has a paragraph boundary
HasBoundary(t) == WithBoundaries(t, 1, <<>>) # WithBoundaries(t, 1, <<"!">>)

\* C12: in the paragraph step (indentation active, no paragraph template), when
\* the flags report a tag around multiple lines every paragraph boundary becomes
\* "<br> " and a newline, and when they do not every boundary becomes a newline,
\* the rest-indentation and a space, with no <br> added anywhere; for 'a\n\nb'
\* processCode returns 'a<br> b' in the first case and the second paragraph on
\* its own line behind the rest-indentation in the second.
C12_ParagraphPolicy ==
    [][/\ pc = "paragraphs" =>
           /\ aux.flags.areThereTagsAroundMultipleLines
                  => text' = WithBoundaries(text, 1, BR \o <<" ", NL>>)
           /\ ~aux.flags.areThereTagsAroundMultipleLines
                  => /\ text' = WithBoundaries(text, 1,
                                    <<NL>> \o restLinesIndentation(indent) \o <<" ">>)
                     /\ Count(BR, text') = Count(BR, text)
       /\ (pc' = "done" /\ indent # <<>> /\ input = A_GAP_B)
              => result' = <<"a", NL>> \o restLinesIndentation(indent) \o <<" ", "b">>
       /\ (pc' = "done" /\ indent # <<>> /\ input = Q_GAP_C /\ ~aux.isInTemplate)
              => Occurs(<<">">> \o BR \o <<" ", "c">>, result')]_vars

\* a boundary after a tag around two lines has become a forced line break
C12_Witness ==
    /\ pc = "newlines"
    /\ input = Q_GAP_C
    /\ indent = <<":">>
    /\ aux.flags.areThereTagsAroundMultipleLines
    /\ HasBoundary(input)
    /\ Occurs(BR \o <<" ", NL, "c">>, text)

NESTED3 == <<"{", "{", "a", "|", "{", "{", "b", "|", "{", "{", "c", "}", "}", "}", "}", "}", "}">>

\* the number of outermost templates of t from p on, at depth d with n counted
\* so far; -1 when the delimiters are not balanced
RECURSIVE Nesting(_, _, _, _)
Nesting(t, p, d, n) ==
    IF p > Len(t) THEN (IF d = 0 THEN n ELSE -1)
    ELSE IF StartsWithAt(t, p, OPEN) THEN Nesting(t, p + 2, d + 1, IF d = 0 THEN n + 1 ELSE n)
    ELSE IF StartsWithAt(t, p, CLOSE) THEN (IF d = 0 THEN -1 ELSE Nesting(t, p + 2, d - 1, n))
    ELSE Nesting(t, p + 1, d, n)

\* the text holds no tag and no token, and its templates are balanced
BalancedTemplates(t) == "<" \notin Range(t) /\ Nesting(t, 1, 0, 0) >= 0

\* the number of template tokens in t
TemplateTokens(t) ==
    Cardinality({p \in 1..Len(t) : KindTokenEnd(t, p, {K_template}, FALSE) > 0})

\* s is a template all of whose inner templates are tokens
InnermostTemplate(s) ==
    /\ StartsWithAt(s, 1, OPEN)
    /\ StartsWithAt(s, Len(s) - 1, CLOSE)
    /\ ~Occurs(OPEN, SubSeq(s, 3, Len(s)))

\* C13: for a text of balanced templates, every span the scan hands to the
\* handler and masks is a template whose inner templates are already tokens,
\* the scan ends with one template token per outermost template, and
\* buildWikitext('{{a|{{b|{{c}}}}}}', '') raises nothing and returns the three
\* templates as they were.
C13_InnerFirst ==
    [][/\ (pc = "scan" /\ BalancedTemplates(input) /\ ~ScanPushes(text, pos) /\ stack # <<>>)
              => InnermostTemplate(SpanText(text, TemplateSpan(text, pos, stack)))
       /\ (pc = "scan" /\ BalancedTemplates(input) /\ pc' = "process")
              => TemplateTokens(text) = Nesting(Trim(input), 1, 0, 0)
       /\ (input = NESTED3 /\ indent = <<>>)
              => /\ pc' \notin {"error", "diverged"}
                 /\ pc' = "done" => result' = NESTED3 \o <<NL>>]_vars

\* the placeholder-shaped substrings of t
TokensOf(t) ==
    {SubSeq(t, p, MASK_ANY_REGEXP(t, p) - 1) : p \in {q \in 1..Len(t) : MASK_ANY_REGEXP(t, q) > 0}}

\* the token tok carries the tag of the kind k
Tagged(tok, k) == Occurs(<<"_">> \o k \o MASK_SUFFIX, tok)

\* the token tok carries no kind tag: digits alone between prefix and suffix
Untagged(tok) == \A j \in (Len(MASK_PREFIX) + 1)..(Len(tok) - Len(MASK_SUFFIX)) : tok[j] \in DIGIT_CHARS

\* no token of the set S occurs less often in u than in t
TokensStay(S, t, u) == \A tok \in S : Count(tok, u) >= Count(tok, t)

\* C14 as stated: a turn of unmask(kind) leaves every token that is not tagged
\* with that kind in the text, the untagged ones included, and unmask(kind)
\* returns a text without a token of that kind; unmask() returns a text without
\* any token.
C14_ExactlyThatKind ==
    [][/\ (pc = "unmask" /\ unmaskType # <<>>)
              => TokensStay({tok \in TokensOf(text) : ~Tagged(tok, unmaskType)}, text, text')
       /\ (pc' = "done" /\ unmaskType # <<>>)
              => \A tok \in TokensOf(result') : ~Tagged(tok, unmaskType)
       /\ (pc' = "done" /\ unmaskType = <<>>) => TokensOf(result') = {}]_vars

\* C14: a turn of unmask(kind) leaves every token tagged with another kind in
\* the text, and unmask(kind) returns a text that holds neither a token of that
\* kind nor an untagged token; unmask() returns a text without any token.
C14_ThatKindAndUntagged ==
    [][/\ (pc = "unmask" /\ unmaskType # <<>>)
              => TokensStay({tok \in TokensOf(text) :
                                 ~Tagged(tok, unmaskType) /\ ~Untagged(tok)}, text, text')
       /\ (pc' = "done" /\ unmaskType # <<>>)
              => \A tok \in TokensOf(result') : ~Tagged(tok, unmaskType) /\ ~Untagged(tok)
       /\ (pc' = "done" /\ unmaskType = <<>>) => TokensOf(result') = {}]_vars

\* unmask('template') has put a template back and left the nowiki token in it
C14_Witness ==
    /\ pc = "done"
    /\ unmaskType = K_template
    /\ passes = 1
    /\ Len(maskedTexts) = 2
    /\ result = <<"{", "{", "a", "|">> \o Token(1, K_inline) \o <<"}", "}">>

-----------------------------------------------------------------------------
(* Submitting a vote *)

\* the text of entry k of the selection, as submitVote builds it
BuiltFor(k) ==
    buildFinalVoteWikitext(dialog.voteMessages[dialog.selectedEntries[k]], getVoteIndent(dialog.useBulleted))

\* submitVote is about to run and buildWikitext raises for one of the selected entries
RaisesDuringSubmit ==
    /\ CanSubmit
    /\ \E k \in 1..Len(dialog.selectedEntries) :
         /\ BuiltFor(k).error \notin {NoError, "diverged"}
         /\ \A j \in 1..(k - 1) : BuiltFor(j).error = NoError

\* C15: when buildWikitext raises for a selected entry during submitVote, no
\* edit is posted and vote is not called for any entry, the user is told of the
\* failure, isSubmitting is false again and the dialog is still open.
C15_NoPartialSubmission ==
    [][RaisesDuringSubmit
          => /\ edits' = edits
             /\ voting' = voting
             /\ notices' = Append(notices, "submitFailed")
             /\ ~dialog'.isSubmitting
             /\ dialog'.open]_vars

\* two entries are selected, the text of the first is built, building the text
\* of the second raised, and the catch block has run
C15_Witness ==
    /\ aux >= 1
    /\ error = "RangeError"
    /\ Len(dialog.selectedEntries) = 2
    /\ dialog.voteMessages[dialog.selectedEntries[1]] = <<"o", "k">>
    /\ notices = <<"submitFailed">>

\* the answer holds no section text, or a text without a variant of the entry's name
NoEntry(res, id) ==
    \/ ~res.revision
    \/ res.content = <<>>
    \/ ~textMatchTitleVariants(res.content, votedPageName(id))

EditsOf(c) == {e \in 1..Len(edits) : edits[e].call = c}

\* the edit e is the one the answer res asks for
RightEdit(e, res, sectionID) ==
    IF innerHeadings(state.pageName, res.content)
    THEN e.section = sectionID + 1 /\ e.param = "prependtext"
    ELSE e.section = sectionID /\ e.param = "appendtext"

\* the voteAPI call that has its answer ended as it should
CallSettled ==
    /\ NoEntry(voting.res[1], voting.voteIDs[voting.k]) => voting.returned = "true"
    /\ voting.returned = "true" => EditsOf(voting.calls) = {}
    /\ voting.returned = "false"
          => /\ Cardinality(EditsOf(voting.calls)) = 1
             /\ \A e \in EditsOf(voting.calls) : RightEdit(edits[e], voting.res[1], voting.voteIDs[voting.k])

\* C16: a voteAPI call whose answer holds no section text or no variant of the
\* entry's name returns true, a call that returns true has posted no edit, a
\* call that returns false has posted exactly one edit (prepended to section + 1
\* when the section text has inner headings, appended to the section otherwise),
\* and after a call returned true the next call is made only when the user
\* submits again.
C16_ConflictOrOneEdit ==
    [][/\ (voting.returned = "pending" /\ voting.res = <<>> /\ voting'.res # <<>>)
            => (voting'.returned # "pending" \/ pc' = "post") /\ pc' # "get"
       /\ (voting.returned = "pending" /\ voting'.res # <<>> /\ voting'.calls = voting.calls)
            => CallSettled' /\ (voting'.returned = "true" => edits' = edits)
       /\ (voting'.calls > voting.calls /\ voting.returned = "true")
            => (~dialog.isSubmitting /\ aux' = aux + 1)]_vars

\* one call returned true, and after the user submitted again a call returned
\* false with its edit prepended to the next section
C16_Witness ==
    /\ aux = 2
    /\ voting.calls = 2
    /\ voting.returned = "false"
    /\ "notFound" \in Range(notices)
    /\ \E e \in EditsOf(2) : edits[e].param = "prependtext" /\ edits[e].section = voting.voteIDs[voting.k] + 1

-----------------------------------------------------------------------------
(* The template scan *)

\* the scan is at the head of its loop and finds an opener, and either the next
\* closer lies after it or there is no closer
OpenerComesFirst(left, right) == left # -1 /\ (right = -1 \/ left < right)

\* C17: whenever the scan finds an opener at or after the cursor and either the
\* opener lies before the next closer or no closer exists, the position of the
\* opener is pushed on the stack and the cursor moves past the opener.
C17_PushRule ==
    [][(pc = "scan" /\ OpenerComesFirst(IndexOf(text, OPEN, pos), IndexOf(text, CLOSE, pos)))
          => /\ stack' = Append(stack, IndexOf(text, OPEN, pos))
             /\ pos' = IndexOf(text, OPEN, pos) + 2]_vars

\* the scan is at the head of its loop with an empty stack, and the next closer
\* has no opener before it
UnmatchedCloser(left, right) == stack = <<>> /\ right # -1 /\ (left = -1 \/ right < left)

\* the text from position 0 through the closer at right has become one template token
MaskedFromStart(right) ==
    /\ Len(maskedTexts') = Len(maskedTexts) + 1
    /\ text' = Token(Len(maskedTexts'), K_template) \o SubSeq(text, right + 3, Len(text))

\* C18: when the stack is empty and a closer is found, the text from position 0
\* through that closer is masked as one template token (unless the handler
\* throws on it).
C18_CloserSwallowsStart ==
    [][(pc = "scan" /\ UnmatchedCloser(IndexOf(text, OPEN, pos), IndexOf(text, CLOSE, pos)))
          => (MaskedFromStart(IndexOf(text, CLOSE, pos)) \/ pc' = "error")]_vars

\* a one-line text of letters, spaces, "|" and braces
BraceText(t) == \A k \in 1..Len(t) : t[k] \in Range(LOWER) \cup {" ", "|", "{", "}"}

NoDelimiter(t) == IndexOf(t, OPEN, 0) = -1 /\ IndexOf(t, CLOSE, 0) = -1

\* C19: for a one-line text of ordinary characters and template delimiters in
\* any arrangement, buildWikitext(text, '') throws nothing, ends, and returns
\* the trimmed text followed by one newline; and on a text without a template
\* delimiter the template scan ends at once, leaving the text and the store to
\* the table masking as they were.
C19_DelimitersTolerated ==
    [][/\ (indent = <<>> /\ BraceText(input))
            => /\ pc' \notin {"error", "diverged"}
               /\ pc' = "done" => result' = Trim(input) \o <<NL>>
       /\ (pc = "scan" /\ NoDelimiter(input))
            => /\ pc' = "process"
               /\ pos' = pos /\ stack' = stack
               /\ [text |-> text', maskedTexts |-> maskedTexts'] = MaskSensitiveTables(masker)]_vars

\* an opener without a closer before a whole template: both spans were masked,
\* the first to the end of the text, and the text came back as it was
C19_Witness ==
    /\ pc = "done"
    /\ indent = <<>>
    /\ input = <<"{", "{", "a", "{", "{", "}", "}">>
    /\ Len(maskedTexts) = 2
    /\ result = input \o <<NL>>

-----------------------------------------------------------------------------
(* The order of the masking steps *)

TagKinds == {K_block, K_gallery, K_inline}

\* the place of a kind in the order of maskSensitiveCode
Rank(k) ==
    IF k = K_block THEN 1 ELSE IF k = K_gallery THEN 2 ELSE IF k = K_inline THEN 3
    ELSE IF k = K_template THEN 4 ELSE 5

\* the kinds under which the n-th stored text is referred to, in the text or in the store
KindsOf(n) ==
    {k \in Kinds : \/ Occurs(Token(n, k), text)
                   \/ \E j \in 1..Len(maskedTexts) : Occurs(Token(n, k), maskedTexts[j])}

\* the store holds the tag blocks first, then the templates, then the tables
StoredInOrder ==
    \A i \in 1..Len(maskedTexts) : \A j \in (i + 1)..Len(maskedTexts) :
        \A ki \in KindsOf(i) : \A kj \in KindsOf(j) : Rank(ki) <= Rank(kj)

\* no block of one of the masked tags stands in t
NoTagBlock(t) == MaskSensitiveTags([text |-> t, maskedTexts |-> <<>>]).maskedTexts = <<>>

\* the tags have been masked: no tag block is left in the text, and every
\* stored tag block is a piece of the input, its braces as they were
TagBlocksHidden ==
    /\ NoTagBlock(text)
    /\ \A n \in 1..Len(maskedTexts) : KindsOf(n) \cap TagKinds # {} => Occurs(maskedTexts[n], input)

\* the scan hands a span to the handler
SpanHanded == pc = "scan" /\ ~ScanPushes(text, pos) /\ stack # <<>>

\* a whole template, from "{{" to a later "}}", stands in t
TemplateLeft(t) ==
    \E l \in 1..Len(t) : \E r \in (l + 2)..Len(t) : StartsWithAt(t, l, OPEN) /\ StartsWithAt(t, r, CLOSE)

\* the order of the masking steps and the hiding of the tag blocks, without the
\* part on the tables
C20_TagsFirst ==
    [][/\ StoredInOrder
       /\ (pc = "scan" /\ pos = 0 /\ stack = <<>>) => TagBlocksHidden
       /\ SpanHanded => NoTagBlock(SpanText(text, TemplateSpan(text, pos, stack)))]_vars

\* C20: the tag blocks (kinds block, gallery, inline) are masked before the
\* templates and the tables after them; no "{{" or "}}" inside a tag block is
\* scanned as a template; and the table patterns are applied to a text in which
\* every template is a token.
C20_MaskingOrder ==
    [][/\ StoredInOrder
       /\ (pc = "scan" /\ pos = 0 /\ stack = <<>>) => TagBlocksHidden
       /\ SpanHanded => NoTagBlock(SpanText(text, TemplateSpan(text, pos, stack)))
       /\ (pc = "scan" /\ pc' = "process") => ~TemplateLeft(text)]_vars

-----------------------------------------------------------------------------
(* Tables inside templates *)

\* a table the table patterns match stands in t
HasTable(t) == MaskSensitiveTables([text |-> t, maskedTexts |-> <<>>]).maskedTexts # <<>>

HoldsTableToken(t) == \E p \in 1..Len(t) : KindTokenEnd(t, p, {K_table}, FALSE) > 0

\* C21: when the span handed to the template handler holds a table, the text
\* stored for the template holds a table token in place of the raw table.
C21_TableMaskedInTemplate ==
    [][(SpanHanded /\ HasTable(SpanText(text, TemplateSpan(text, pos, stack))) /\ pc' = "scan")
          => /\ HoldsTableToken(maskedTexts'[Len(maskedTexts')])
             /\ ~Occurs(<<"{", "|">>, maskedTexts'[Len(maskedTexts')])]_vars

-----------------------------------------------------------------------------
(* The list tree *)

\* C22: in the tree linesToLists returns no leaf keeps a text whose first
\* character is a list-prefix character: every run of such items has become a
\* nested list.
C22_NoPrefixedLeaf ==
    pc = "lists" => \A k \in 1..Len(Leaves(aux)) : Leaves(aux)[k] = <<>> \/ ~IsListChar(Leaves(aux)[k][1])

\* the list-prefix character of a line, "" when it has none
PrefixChar(line) == IF line # <<>> /\ IsListChar(line[1]) THEN line[1] ELSE ""

\* two prefix characters open the same kind of list: the same character, or
\* (when terms and definitions count as one kind) ":" and ";"
SameList(c, d, byCharacter) == c = d \/ (~byCharacter /\ {c, d} = {":", ";"})

\* the top level of the tree for the lines: a line without a prefix stays a
\* line, consecutive lines of the same kind of list form one run
RECURSIVE Grouped(_, _, _)
Grouped(lines, k, byCharacter) ==
    IF k = 0 THEN <<>>
    ELSE LET before == Grouped(lines, k - 1, byCharacter)
             c == PrefixChar(lines[k])
         IN IF c = "" THEN Append(before, [text |-> lines[k]])
            ELSE IF k > 1 /\ PrefixChar(lines[k - 1]) # "" /\ SameList(PrefixChar(lines[k - 1]), c, byCharacter)
            THEN [before EXCEPT ![Len(before)].run = Append(@, lines[k])]
            ELSE Append(before, [run |-> <<lines[k]>>])

\* the item of a line that has one prefix character
FlatItem(line) == [type |-> itemTags(line[1]), text |-> Tail(line)]

FlatRun(run) == \A k \in 1..Len(run) : PrefixChar(Tail(run[k])) = ""

\* the top-level node is what the group asks for: the line itself, or a
\* container of the run's kind, holding one item a line when no line of the run
\* has a second prefix character
NodeOfGroup(node, group) ==
    IF "text" \in DOMAIN group
    THEN isListLineNode(node) /\ node.text = group.text
    ELSE /\ ~isListLineNode(node)
         /\ node.type = listTags(group.run[1][1])
         /\ FlatRun(group.run) => node.items = [k \in 1..Len(group.run) |-> FlatItem(group.run[k])]

TopLevelIs(groups) ==
    /\ Len(aux) = Len(groups)
    /\ \A k \in 1..Len(groups) : NodeOfGroup(aux[k], groups[k])

\* C23 as stated: consecutive top-level lines are in the same container exactly
\* when they have the same list-prefix character; a line with another prefix
\* character or with none closes the container; lines outside every list stay
\* unchanged and in place.
C23_GroupedByCharacter ==
    pc = "lists" => TopLevelIs(Grouped(SplitLines(input), Len(SplitLines(input)), TRUE))

\* C23: consecutive top-level lines are in the same container exactly when
\* their prefix characters stand for the same kind of list, ":" and ";" both
\* standing for a definition list; a line of another kind or with no prefix
\* closes the container; lines outside every list stay unchanged and in place.
C23_GroupedByListKind ==
    pc = "lists" => TopLevelIs(Grouped(SplitLines(input), Len(SplitLines(input)), FALSE))

\* a term line and a definition line in one container between two plain lines
C23_Witness ==
    /\ pc = "lists"
    /\ SplitLines(input) = <<<<" ", "a">>, <<";", " ", "b">>, <<":", " ", "c">>, <<" ", "d">>>>
    /\ Len(aux) = 3
    /\ aux[2].type = "dl"
    /\ Len(aux[2].items) = 2

EndsWithNewline(t) == t # <<>> /\ t[Len(t)] = NL

\* C24: whenever buildWikitext returns, the returned text ends with a newline,
\* and for input that holds no placeholder-shaped text it holds no placeholder
\* token; unmasking is the last step: the text it starts from and every text it
\* passes through already ends with the newline, and the text returned is the
\* one the last turn of unmasking left.
C24_ResultShape ==
    /\ pc = "unmask" => EndsWithNewline(text)
    /\ pc = "done" => /\ EndsWithNewline(result)
                      /\ result = text
                      /\ ~HasToken(input) => ~HasToken(result)

\* buildWikitext has returned for an input that had something to unmask
C24_Witness ==
    /\ pc = "done"
    /\ maskedTexts # <<>>
    /\ passes > 0
    /\ ~HasToken(input)
    /\ EndsWithNewline(result)
    /\ ~HasToken(result)

\* s starts with "{{" and ends with "}}"
IsTemplate(s) == Len(s) >= 4 /\ StartsWithAt(s, 1, OPEN) /\ StartsWithAt(s, Len(s) - 1, CLOSE)

\* where indexOf starts for the cursor p: a negative start counts as 0
CursorAt(p) == IF p < 0 THEN 0 ELSE p

\* C25: after a span is masked the scan goes on exactly at the token put in
\* its place, whatever the length of the text the handler returned: no opener
\* on the stack lies at or after the cursor, where it would be pushed a second
\* time; for balanced input every span handed to the handler is a template, and
\* the scan ends with one template token for each outermost template.
C25_ResumesAtToken ==
    [][/\ (SpanHanded /\ pc' = "scan")
              => /\ CursorAt(pos') = TemplateSpan(text, pos, stack)[1]
                 /\ \A k \in 1..Len(stack') : stack'[k] < CursorAt(pos')
       /\ (SpanHanded /\ BalancedTemplates(input))
              => IsTemplate(SpanText(text, TemplateSpan(text, pos, stack)))
       /\ (pc = "scan" /\ BalancedTemplates(input) /\ pc' = "process")
              => TemplateTokens(text) = Nesting(Trim(input), 1, 0, 0)]_vars

\* the voteAPI call c posted its edit
Posted(c) == Cardinality(EditsOf(c)) = 1

\* C26: vote takes the selected ids in order and has one voteAPI call under
\* way at a time: a call is made for the first id when the user submits and for
\* the next id when the call before it returned false; when a call returns
\* true, vote returns true with no further call and no refresh of the page
\* scheduled; the refresh is scheduled only when the call of every id has
\* posted its edit and returned false.
C26_InOrderUntilConflict ==
    [][/\ voting'.calls # voting.calls
            => /\ voting'.calls = voting.calls + 1
               /\ \/ /\ pc = "dialog"
                     /\ voting.returned # "pending"
                     /\ voting'.k = 1
                     /\ voting'.voteIDs = dialog.selectedEntries
                  \/ /\ pc = "post"
                     /\ Posted(voting.calls)
                     /\ voting'.k = voting.k + 1
                     /\ voting'.voteIDs = voting.voteIDs
       /\ (voting.returned = "pending" /\ voting'.returned = "true")
            => /\ voting'.refresh = voting.refresh
               /\ voting'.calls = voting.calls
               /\ pc' = "dialog"
       /\ voting'.refresh # voting.refresh
            => /\ voting'.refresh = voting.refresh + 1
               /\ voting'.returned = "false"
               /\ voting.k = Len(voting.voteIDs)
               /\ \A j \in 1..Len(voting.voteIDs) : Posted(voting.calls - Len(voting.voteIDs) + j)]_vars

\* a first submission ended at a call that returned true, a second one went
\* through both ids and scheduled the refresh
C26_Witness ==
    /\ pc = "closed"
    /\ aux = 2
    /\ Len(voting.voteIDs) = 2
    /\ voting.k = 2
    /\ voting.refresh = 1
    /\ "notFound" \in Range(notices)

-----------------------------------------------------------------------------
(* The vote dialog *)

\* a vote() started by submitVote has not returned or thrown
InFlight == pc \in {"get", "post"}

\* C27: a dialog has at most one submission under way: submitVote is started
\* only when isSubmitting is false and no vote() is under way, isSubmitting is
\* true as long as the vote() is under way, and it is false again when
\* submitVote has settled, by success, by a conflict or by an exception.
C27_OneSubmissionInFlight ==
    [][/\ aux' # aux => (~dialog.isSubmitting /\ ~InFlight)
       /\ InFlight => dialog.isSubmitting
       /\ InFlight' => dialog'.isSubmitting
       /\ (InFlight /\ ~InFlight') => ~dialog'.isSubmitting
       /\ (aux' # aux /\ ~InFlight') => ~dialog'.isSubmitting]_vars

\* a second submission is under way, and the user has gone back to the step of
\* the messages, where the primary button is not disabled
C27_Witness ==
    /\ InFlight
    /\ aux = 2
    /\ dialog.open
    /\ dialog.isSubmitting
    /\ dialog.currentStep = 1

\* the dialog d has a selection, and a message that is not blank for each entry of it
ReadyToSubmit(d) ==
    /\ d.selectedEntries # <<>>
    /\ \A k \in 1..Len(d.selectedEntries) : Trim(d.voteMessages[d.selectedEntries[k]]) # <<>>

\* C28: currentStep stays within 0..2; it goes from 0 to 1 only with a
\* selection and from 1 to 2 only when every selected entry has a message that
\* is not blank; submitVote is started only at step 2; and at step 2 the
\* selection is not empty and no selected entry's message is blank.
C28_StepMachine ==
    [][/\ dialog'.currentStep \in 0..2
       /\ (dialog.currentStep = 0 /\ dialog'.currentStep # 0)
             => (dialog'.currentStep = 1 /\ dialog.selectedEntries # <<>>)
       /\ (dialog.currentStep = 1 /\ dialog'.currentStep = 2) => ReadyToSubmit(dialog)
       /\ aux' # aux => dialog.currentStep = 2
       /\ dialog.currentStep = 2 => ReadyToSubmit(dialog)
       /\ dialog'.currentStep = 2 => ReadyToSubmit(dialog')]_vars

\* after a submission that ended in a conflict the user went back, selected a
\* second entry, and is at the preview again
C28_Witness ==
    /\ pc = "dialog"
    /\ aux = 1
    /\ dialog.open
    /\ dialog.currentStep = 2
    /\ Len(dialog.selectedEntries) = 2
    /\ Len(voting.voteIDs) = 1

\* C30: once no loadEntryInfo call is pending, entryInfoById holds the info of
\* every entry that is selected and isLoadingInfo is false, whatever the order
\* in which the selection changed and the loads completed.
C30_NewestSelectionWins ==
    loads = <<>> => /\ Range(dialog.selectedEntries) \subseteq dialog.entryInfoById
                    /\ ~dialog.isLoadingInfo

\* C29: at most one dialog app is mounted at a time, and a dialog that was
\* opened and is not closed has its mount in the document and is the app
\* getMountedApp returns, whatever the order of openVoteDialog calls, component
\* loads, closings and delayed removals.
C29_OneDialogMounted ==
    /\ Cardinality(mountElement.apps) <= 1
    /\ \A a \in 1..Len(apps) :
         apps[a] = "open" => (mountElement.present /\ a \in mountElement.apps /\ mountedApp = a)

====
